---- MODULE Spec2Model ----
(***************************************************************************)
(* A model of the fwgnss extraction pipeline: the buffered line reader of  *)
(* generic.Extracter, the recognizers (Extract class methods) of the item  *)
(* classes, the extracter registry and the GetItems dispatch loop.         *)
(*                                                                         *)
(* Bytes are the integers 0..255.  A Python bytes/str value is a sequence  *)
(* of bytes; an ASCII str and its bytes are the same sequence.  A Python   *)
(* exception that escapes a recognizer ends the GetItems generator; the    *)
(* model records it in pc = "raised" and error.                            *)
(***************************************************************************)
EXTENDS Integers, Sequences, FiniteSets, TLC

VARIABLES
  stream,        \* the whole content of the input source (never changes)
  input,         \* self.input: the bytes of the source not yet read
  line,          \* self.line: the buffer
  charpos,       \* self.charpos
  linenum,       \* self.linenum
  skipped,       \* self.skipped
  extended,      \* self.extended
  extractables,  \* self.extractables: sequence of <<class, priority>>
  extracters,    \* self.extracters: the bound recognizers, in trial order
  items,         \* the items GetItems has yielded so far, in yield order
  pc,            \* "new", "run", "done" or "raised": where GetItems stands
  error,         \* the exception that ended GetItems, "none" otherwise
  last,          \* a record of what the latest GetItems iteration did
  nreg,          \* number of registry operations performed
  layout,        \* how Init composed stream: [junk, frame, tail, fmt, kind]
  main,          \* the program that iterates over GetItems: its options,
                 \* the position in its loop body, and the stage calls made
  decoder,       \* a Decoder instance: decoder_dict, last_time, the
                 \* correlation state of NmeaDecoder, and the items it was
                 \* handed with what Parse and Decode returned for them
  instances,     \* Decoder instances handed items in turn: the objects
                 \* that hold attributes, the object of each instance,
                 \* and what each instance returned for its items
  call           \* the call of a function on its own: [func, ...]

vars == <<stream, input, line, charpos, linenum, skipped, extended,
          extractables, extracters, items, pc, error, last, nreg, layout,
          main, decoder, instances, call>>

-----------------------------------------------------------------------------
(* Bytes and sequences                                                      *)

LF == 10
CR == 13
TAB == 9
SPACE == 32
DOLLAR == 36
HASH == 35
STAR == 42
COMMA == 44
GT == 62

Min(a, b) == IF a < b THEN a ELSE b

\* s[lo:hi] of Python for 0 <= lo: the bytes at 0-based offsets lo..hi-1.
Slice(s, lo, hi) ==
  IF lo >= Min(hi, Len(s)) THEN <<>> ELSE SubSeq(s, lo + 1, Min(hi, Len(s)))

\* s[lo:] of Python.
From(s, lo) == IF lo >= Len(s) THEN <<>> ELSE SubSeq(s, lo + 1, Len(s))

StartsWith(s, p) == Len(s) >= Len(p) /\ SubSeq(s, 1, Len(p)) = p

EndsWith(s, p) == Len(s) >= Len(p) /\ SubSeq(s, Len(s) - Len(p) + 1, Len(s)) = p

\* The 0-based offsets at which sub occurs in s.
Occurrences(s, sub) ==
  {i \in 0..(Len(s) - Len(sub)) : SubSeq(s, i + 1, i + Len(sub)) = sub}

\* The least member of a non-empty set of offsets, -1 for the empty set.
Least(offsets) ==
  IF offsets = {} THEN -1 ELSE CHOOSE i \in offsets : \A j \in offsets : i <= j

\* bytes.find(sub): the first 0-based offset of sub in s, or -1.
Find(s, sub) == Least(Occurrences(s, sub))

\* sum(s), computed by halves to keep the recursion shallow on long bodies.
RECURSIVE Sum(_)
Sum(s) ==
  IF s = <<>> THEN 0
  ELSE IF Len(s) = 1 THEN s[1]
  ELSE Sum(SubSeq(s, 1, Len(s) \div 2)) + Sum(SubSeq(s, Len(s) \div 2 + 1, Len(s)))

RECURSIVE BitXor(_, _)
BitXor(a, b) ==
  IF a = 0 THEN b
  ELSE IF b = 0 THEN a
  ELSE (((a % 2) + (b % 2)) % 2) + 2 * BitXor(a \div 2, b \div 2)

\* reduce(operator.xor, bytearray(data), 0)
RECURSIVE XorAll(_)
XorAll(s) == IF s = <<>> THEN 0 ELSE BitXor(Head(s), XorAll(Tail(s)))

\* str.split(sep): the fields between separators (always at least one).
RECURSIVE Split(_, _)
Split(s, sep) ==
  LET i == Find(s, <<sep>>)
  IN IF i < 0 THEN <<s>>
     ELSE <<Slice(s, 0, i)>> \o Split(From(s, i + 1), sep)

\* sep.join(fields)
RECURSIVE Join(_, _)
Join(fields, sep) ==
  IF fields = <<>> THEN <<>>
  ELSE IF Len(fields) = 1 THEN fields[1]
  ELSE fields[1] \o <<sep>> \o Join(Tail(fields), sep)

RECURSIVE Concat(_)
Concat(ss) == IF ss = <<>> THEN <<>> ELSE Head(ss) \o Concat(Tail(ss))

-----------------------------------------------------------------------------
(* Items                                                                    *)

None == [cls |-> "None"]

\* BaseItem.__init__: length defaults to len(data) when absent or 0.
\* Absent msgtype/subtype are <<>>; charpos is set by GetItems.  span is not
\* a field of the program's item: it records the bytes GetItems took out of
\* the buffer for the item, for the properties that speak of them.
MakeItem(cls, data, length, msgtype, subtype, has_checksum) ==
  [cls |-> cls, data |-> data,
   length |-> IF length = 0 THEN Len(data) ELSE length,
   msgtype |-> msgtype, subtype |-> subtype,
   has_checksum |-> has_checksum, charpos |-> -1, span |-> <<>>]

-----------------------------------------------------------------------------
(* The buffered reader                                                      *)

LINE_MAX == 500

\* The reader part of the Extracter that a recognizer can change.
Reader(l, i, e, n) == [line |-> l, input |-> i, extended |-> e, linenum |-> n]

\* input.readline(maxlen): through the first LF, at most maxlen bytes.
ReadLineAt(src, maxlen, lf) ==
  IF lf > 0 /\ lf <= maxlen THEN lf ELSE Min(maxlen, Len(src))

ReadLineLen(src, maxlen) == ReadLineAt(src, maxlen, Find(src, <<LF>>) + 1)

\* GetLine that never sets the flag.
GetLineReadUnflagged(rd, n) ==
  IF n = 0 THEN [ok |-> FALSE, rd |-> rd]
  ELSE [ok |-> TRUE,
        rd |-> [line |-> rd.line \o SubSeq(rd.input, 1, n),
                input |-> From(rd.input, n),
                extended |-> FALSE,
                linenum |-> IF rd.input[n] = LF
                            THEN rd.linenum + 1 ELSE rd.linenum]]

\* GetLine that replaces the buffer by what it read.
GetLineReadOver(rd, n) ==
  IF n = 0 THEN [ok |-> FALSE, rd |-> rd]
  ELSE [ok |-> TRUE,
        rd |-> [line |-> SubSeq(rd.input, 1, n),
                input |-> From(rd.input, n),
                extended |-> rd.line # <<>>,
                linenum |-> IF rd.input[n] = LF
                            THEN rd.linenum + 1 ELSE rd.linenum]]

\* GetLine, given the number n of bytes readline returned.
GetLineRead(rd, n) ==
  IF n = 0 THEN [ok |-> FALSE, rd |-> rd]
  ELSE [ok |-> TRUE,
        rd |-> [line |-> rd.line \o SubSeq(rd.input, 1, n),
                input |-> From(rd.input, n),
                extended |-> rd.line # <<>>,
                linenum |-> IF rd.input[n] = LF
                            THEN rd.linenum + 1 ELSE rd.linenum]]

GetLine(rd, maxlen) == GetLineRead(rd, ReadLineLen(rd.input, maxlen))

\* "for end in ALL_EOL_IN: if line.endswith(end)": the length of the marker
\* that ends ln, 0 if none does.
EndLen(ln) ==
  IF EndsWith(ln, <<CR, LF>>) THEN 2
  ELSE IF EndsWith(ln, <<LF>>) THEN 1
  ELSE IF EndsWith(ln, <<CR>>) THEN 1
  ELSE 0

\* GetEOL, given the part ln of the buffer it looks at and the new flag.
GetEOLIn(rd, ln, ext) ==
  [length |-> Len(ln) - EndLen(ln), endlen |-> EndLen(ln),
   rd |-> [rd EXCEPT !.extended = ext]]

\* GetEOL, given pos: one past the first LF of an extended buffer, else 0.
GetEOLAt(rd, pos) ==
  GetEOLIn(rd,
           IF pos > 0 /\ pos < Len(rd.line) THEN SubSeq(rd.line, 1, pos)
           ELSE rd.line,
           IF pos > 0 /\ pos >= Len(rd.line) THEN FALSE ELSE rd.extended)

GetEOL(rd) == GetEOLAt(rd, IF rd.extended THEN Find(rd.line, <<LF>>) + 1 ELSE 0)

\* Extracter.GetText: the text of the bytes, None (here FALSE) if not ASCII.
IsAscii(data) == \A i \in 1..Len(data) : data[i] < 128

-----------------------------------------------------------------------------
(* What a recognizer returns: (None, 0), (item, n) or an exception, and     *)
(* the reader as the call left it.                                          *)

NoItem(rd) ==
  [kind |-> "none", item |-> None, consumed |-> 0, rd |-> rd, exc |-> "none"]

Got(item, n, rd) ==
  [kind |-> "item", item |-> item, consumed |-> n, rd |-> rd, exc |-> "none"]

Raised(e, rd) ==
  [kind |-> "raise", item |-> None, consumed |-> 0, rd |-> rd, exc |-> e]

-----------------------------------------------------------------------------
(* NMEA sentences: nmea.Sentence                                            *)

IsUpper(c) == c \in 65..90
IsDigit(c) == c \in 48..57
IsSpace(c) == c \in {9, 10, 11, 12, 13, 32}
IsHex(c) == c \in (48..57) \cup (65..70) \cup (97..102)

HexVal(c) == IF c \in 48..57 THEN c - 48
             ELSE IF c \in 65..70 THEN c - 55
             ELSE c - 87

\* '%X' of one hex digit
HexChar(d) == IF d < 10 THEN 48 + d ELSE 55 + d

\* '%02X' % v for a byte v
Hex02(v) == <<HexChar(v \div 16), HexChar(v % 16)>>

\* int(s, 16) for the two characters a, b as Python parses it: two hex
\* digits, or one hex digit with a blank before or after it or a sign before
\* it.  ok is FALSE where Python raises ValueError.
ParseHex(a, b) ==
  IF IsHex(a) /\ IsHex(b) THEN [ok |-> TRUE, val |-> 16 * HexVal(a) + HexVal(b)]
  ELSE IF IsHex(a) /\ IsSpace(b) THEN [ok |-> TRUE, val |-> HexVal(a)]
  ELSE IF IsHex(b) /\ (IsSpace(a) \/ a = 43) THEN [ok |-> TRUE, val |-> HexVal(b)]
  ELSE IF IsHex(b) /\ a = 45 THEN [ok |-> TRUE, val |-> 0 - HexVal(b)]
  ELSE [ok |-> FALSE, val |-> 0]

\* The rest r of a type token after its letters: "[0-9]?$", where $ also
\* matches before a final newline.
TypeRest(r) ==
  \/ r = <<>>
  \/ r = <<LF>>
  \/ Len(r) = 1 /\ IsDigit(r[1])
  \/ Len(r) = 2 /\ IsDigit(r[1]) /\ r[2] = LF

\* TYPE_RE.match(s) for TYPE_RE = [A-Z]{2,5}[0-9]?$
TypeMatch(s) ==
  \E k \in 2..5 :
    /\ k <= Len(s)
    /\ \A i \in 1..k : IsUpper(s[i])
    /\ TypeRest(From(s, k))

\* Sentence.ChecksumBytes / Sentence._ChecksumString
ChecksumBytes(data) == XorAll(data)

\* Sentence.Extract from "if has_checksum:" on, with the parsed checksum.
SentenceChecked(eol, bbody, data, last1, hex) ==
  IF ~hex.ok THEN NoItem(eol.rd)
  ELSE IF ChecksumBytes(Slice(bbody, 0, Len(bbody) - 3)) # hex.val
  THEN NoItem(eol.rd)
  ELSE Got(MakeItem("Sentence",
                    [data EXCEPT ![Len(data)] = Slice(last1, 0, Len(last1) - 3)],
                    0, data[1], <<>>, TRUE),
           eol.length + eol.endlen, eol.rd)

\* Sentence.Extract from "last = data[-1]" on.
SentenceLast(eol, bbody, data, last1) ==
  IF Len(last1) >= 3 /\ last1[Len(last1) - 2] = STAR
  THEN SentenceChecked(eol, bbody, data, last1,
                       ParseHex(last1[Len(last1) - 1], last1[Len(last1)]))
  ELSE Got(MakeItem("Sentence", data, 0, data[1], <<>>, FALSE),
           eol.length + eol.endlen, eol.rd)

\* Sentence.Extract from "data = body.split(SEPARATOR)" on.
SentenceFields(eol, bbody, data) ==
  IF Len(data) < 2 \/ ~TypeMatch(data[1]) THEN NoItem(eol.rd)
  ELSE SentenceLast(eol, bbody, data, data[Len(data)])

\* Sentence.Extract from "bbody = extracter.line[1:length]" on.
SentenceBody(eol, bbody) ==
  IF ~IsAscii(bbody) \/ bbody = <<>> THEN NoItem(eol.rd)
  ELSE SentenceFields(eol, bbody, Split(bbody, COMMA))

\* Sentence.Extract from "length, endlen = extracter.GetEOL()" on.
SentenceLine(eol) ==
  IF eol.endlen = 0 THEN NoItem(eol.rd)
  ELSE SentenceBody(eol, Slice(eol.rd.line, 1, eol.length))

SentenceExtract(rd) ==
  IF Len(rd.line) < 2 \/ ~StartsWith(rd.line, <<DOLLAR>>) THEN NoItem(rd)
  ELSE SentenceLine(GetEOL(rd))

\* Sentence.Contents, given the joined fields.  The result of a Contents is
\* [ok, bytes]; ok is FALSE where the method raises.
SentenceText(item, text) ==
  [ok |-> TRUE,
   bytes |-> IF item.has_checksum
             THEN <<DOLLAR>> \o text \o <<STAR>> \o Hex02(ChecksumBytes(text))
                    \o <<CR, LF>>
             ELSE <<DOLLAR>> \o text \o <<CR, LF>>]

SentenceContents(item) == SentenceText(item, Join(item.data, COMMA))

-----------------------------------------------------------------------------
(* Comment lines: generic.Comment                                           *)

COMMENT_MAX_LENGTH == 132

\* Comment.BAD_CHARS
IsBadChar(c) == c < SPACE /\ c # TAB

\* Comment.Extract from "data = extracter.GetText(...)" on.
CommentData(eol, data) ==
  IF ~IsAscii(data) THEN NoItem(eol.rd)
  ELSE IF \E i \in 1..Len(data) : IsBadChar(data[i]) THEN NoItem(eol.rd)
  ELSE Got(MakeItem("Comment", data, eol.length, <<>>, <<>>, FALSE),
           eol.length + eol.endlen, eol.rd)

\* Comment.Extract from "length, endlen = extracter.GetEOL()" on.
CommentLine(eol) ==
  IF eol.endlen = 0 \/ eol.length > COMMENT_MAX_LENGTH THEN NoItem(eol.rd)
  ELSE CommentData(eol, Slice(eol.rd.line, 0, eol.length))

CommentExtract(rd) ==
  IF ~StartsWith(rd.line, <<HASH>>) THEN NoItem(rd)
  ELSE CommentLine(GetEOL(rd))

CommentContents(item) == [ok |-> TRUE, bytes |-> item.data]

-----------------------------------------------------------------------------
(* Binary messages                                                          *)

\* The per-frame length bound the binary recognizers read as cls.LENGTH_LIMIT.
LENGTH_LIMIT == 16

\* struct 'H': 16-bit unsigned, little and big endian, at 0-based offset i.
LE16(s, i) == s[i + 1] + 256 * s[i + 2]
BE16(s, i) == 256 * s[i + 1] + s[i + 2]
PackLE16(v) == <<v % 256, (v \div 256) % 256>>
PackBE16(v) == <<(v \div 256) % 256, v % 256>>

\* What a read loop returns: whether the frame is in the buffer, the reader.
Filled(rd) == [ok |-> TRUE, rd |-> rd]
NotFilled(rd) == [ok |-> FALSE, rd |-> rd]

-----------------------------------------------------------------------------
(* u-Blox: ublox.Message                                                    *)

UBX_SYNC == <<181, 98>>
UBX_HDR_SIZE == 6
UBX_TRL_SIZE == 2
UBX_OVERHEAD == UBX_HDR_SIZE + UBX_TRL_SIZE
UBX_CKS_START == 2

\* Message.Checksum of ublox: Fletcher sums modulo 256, folded left to right.
RECURSIVE UbloxFletcher(_, _, _)
UbloxFletcher(data, ck_a, ck_b) ==
  IF data = <<>> THEN <<ck_a % 256, ck_b % 256>>
  ELSE UbloxFletcher(Tail(data), ck_a + Head(data), ck_b + ck_a + Head(data))

UbloxChecksum(data) == UbloxFletcher(data, 0, 0)

\* The while loop of Message.Extract: read until header and frame are there.
RECURSIVE UbloxFill(_)

\* "if not extracter.GetLine(...): return None, 0; continue"
UbloxMore(rd, g) == IF ~g.ok THEN NotFilled(rd) ELSE UbloxFill(g.rd)

\* The loop body once the header unpacks, with the declared length.
UbloxNeed(rd, length) ==
  IF length > LENGTH_LIMIT THEN NotFilled(rd)
  ELSE IF length + UBX_OVERHEAD - Len(rd.line) > 0
  THEN UbloxMore(rd, GetLine(rd, length + UBX_OVERHEAD - Len(rd.line)))
  ELSE Filled(rd)

UbloxFill(rd) ==
  IF Len(rd.line) < UBX_HDR_SIZE THEN UbloxMore(rd, GetLine(rd, LINE_MAX))
  ELSE UbloxNeed(rd, LE16(rd.line, 4))

\* Message.Extract after the loop: ln is the buffer, hlength the offset of
\* the trailer.
UbloxVerify(rd, ln, length, hlength) ==
  IF UbloxChecksum(Slice(ln, UBX_CKS_START, hlength))
       # <<ln[hlength + 1], ln[hlength + 2]>>
  THEN NoItem(rd)
  ELSE Got(MakeItem("Ublox", Slice(ln, UBX_HDR_SIZE, hlength), length,
                    ln[3], ln[4], FALSE),
           hlength + UBX_TRL_SIZE, rd)

UbloxFilled(f) ==
  IF ~f.ok THEN NoItem(f.rd)
  ELSE UbloxVerify(f.rd, f.rd.line, LE16(f.rd.line, 4),
                   UBX_HDR_SIZE + LE16(f.rd.line, 4))

UbloxExtract(rd) ==
  IF ~StartsWith(rd.line, UBX_SYNC) THEN NoItem(rd)
  ELSE UbloxFilled(UbloxFill(rd))

UbloxContents(item) ==
  IF Len(item.data) # item.length THEN [ok |-> FALSE, bytes |-> <<>>]
  ELSE [ok |-> TRUE,
        bytes |-> UBX_SYNC \o <<item.msgtype, item.subtype>>
                    \o PackLE16(item.length) \o item.data
                    \o UbloxChecksum(item.data)]

-----------------------------------------------------------------------------
(* SiRF: sirf.Message                                                       *)

SIRF_SYNC == <<160, 162>>
SIRF_END == <<176, 179>>
SIRF_HDR_SIZE == 4
SIRF_TRL_SIZE == 4
SIRF_OVERHEAD == SIRF_HDR_SIZE + SIRF_TRL_SIZE

\* Message.Checksum of sirf: sum(data) & 0x7FFF
SirfChecksum(data) == Sum(data) % 32768

RECURSIVE SirfFill(_)

SirfMore(rd, g) == IF ~g.ok THEN NotFilled(rd) ELSE SirfFill(g.rd)

SirfNeed(rd, length) ==
  IF length > LENGTH_LIMIT THEN NotFilled(rd)
  ELSE IF length + SIRF_OVERHEAD - Len(rd.line) > 0
  THEN SirfMore(rd, GetLine(rd, length + SIRF_OVERHEAD - Len(rd.line)))
  ELSE Filled(rd)

SirfFill(rd) ==
  IF Len(rd.line) < SIRF_HDR_SIZE THEN SirfMore(rd, GetLine(rd, LINE_MAX))
  ELSE SirfNeed(rd, BE16(rd.line, 2))

\* Message.Extract after the loop; msgtype=body[0] raises IndexError for an
\* empty body.
SirfVerify(rd, ln, length, body, hlength) ==
  IF SirfChecksum(body) # BE16(ln, hlength)
     \/ Slice(ln, hlength + 2, hlength + SIRF_TRL_SIZE) # SIRF_END
  THEN NoItem(rd)
  ELSE IF body = <<>> THEN Raised("IndexError", rd)
  ELSE Got(MakeItem("Sirf", body, length, body[1], <<>>, FALSE),
           hlength + SIRF_TRL_SIZE, rd)

SirfFilled(f) ==
  IF ~f.ok THEN NoItem(f.rd)
  ELSE SirfVerify(f.rd, f.rd.line, BE16(f.rd.line, 2),
                  Slice(f.rd.line, SIRF_HDR_SIZE,
                        SIRF_HDR_SIZE + BE16(f.rd.line, 2)),
                  SIRF_HDR_SIZE + BE16(f.rd.line, 2))

SirfExtract(rd) ==
  IF ~StartsWith(rd.line, SIRF_SYNC) THEN NoItem(rd)
  ELSE SirfFilled(SirfFill(rd))

SirfContents(item) ==
  IF Len(item.data) # item.length THEN [ok |-> FALSE, bytes |-> <<>>]
  ELSE [ok |-> TRUE,
        bytes |-> SIRF_SYNC \o PackBE16(item.length) \o item.data
                    \o PackBE16(SirfChecksum(item.data)) \o SIRF_END]

-----------------------------------------------------------------------------
(* Hemisphere: hemisphere.BinaryExtracter.ExtractHemisphere                 *)

HEMI_SYNC == <<36, 66, 73, 78>>
HEMI_END == <<CR, LF>>
HEMI_HDR_SIZE == 8
HEMI_TRL_SIZE == 4
HEMI_OVERHEAD == HEMI_HDR_SIZE + HEMI_TRL_SIZE

\* hemisphere._Checksum: sum(bytearray(data)), not reduced
HemiChecksum(data) == Sum(data)

RECURSIVE HemiFill(_)

HemiMore(rd, g) ==
  IF ~g.ok THEN [ok |-> FALSE, rd |-> rd, needed |-> 0] ELSE HemiFill(g.rd)

HemiNeed(rd, needed) ==
  IF needed > 0 THEN HemiMore(rd, GetLine(rd, needed))
  ELSE [ok |-> TRUE, rd |-> rd, needed |-> needed]

HemiFill(rd) ==
  IF Len(rd.line) < HEMI_HDR_SIZE THEN HemiMore(rd, GetLine(rd, LINE_MAX))
  ELSE HemiNeed(rd, LE16(rd.line, 6) + HEMI_OVERHEAD - Len(rd.line))

\* ExtractHemisphere from "body = self.line[HDR_SIZE:-TRL_SIZE]" on.
HemiVerify(rd, ln, length, body) ==
  IF HemiChecksum(body) # LE16(ln, Len(ln) - HEMI_TRL_SIZE)
     \/ From(ln, Len(ln) - 2) # HEMI_END
  THEN NoItem(rd)
  ELSE Got(MakeItem("Hemisphere", body, length, LE16(ln, 4), <<>>, FALSE),
           length + HEMI_OVERHEAD, rd)

HemiFilled(f) ==
  IF ~f.ok THEN NoItem(f.rd)
  ELSE IF f.needed < 0 THEN NoItem(f.rd)
  ELSE HemiVerify(f.rd, f.rd.line, LE16(f.rd.line, 6),
                  Slice(f.rd.line, HEMI_HDR_SIZE, Len(f.rd.line) - HEMI_TRL_SIZE))

HemisphereExtract(rd) ==
  IF ~StartsWith(rd.line, HEMI_SYNC) THEN NoItem(rd)
  ELSE HemiFilled(HemiFill(rd))

HemisphereContents(item) ==
  IF Len(item.data) # item.length \/ HemiChecksum(item.data) > 65535
  THEN [ok |-> FALSE, bytes |-> <<>>]
  ELSE [ok |-> TRUE,
        bytes |-> HEMI_SYNC \o PackLE16(item.msgtype) \o PackLE16(item.length)
                    \o item.data \o PackLE16(HemiChecksum(item.data))
                    \o HEMI_END]

-----------------------------------------------------------------------------
(* Hemisphere command responses: hemisphere.ResponseExtracter               *)

RESPONSE_PREFIX == <<DOLLAR, GT>>

\* ExtractResponse from "resp = self.GetText(...)" on; Response(None) raises
\* TypeError in BaseItem.__init__ (len(None)).
ResponseText(eol, resp) ==
  IF ~IsAscii(resp) THEN Raised("TypeError", eol.rd)
  ELSE Got(MakeItem("Response", resp, 0, <<>>, <<>>, FALSE),
           eol.length + eol.endlen, eol.rd)

ResponseLine(eol) ==
  IF eol.endlen = 0 THEN NoItem(eol.rd)
  ELSE ResponseText(eol, Slice(eol.rd.line, Len(RESPONSE_PREFIX), eol.length))

ResponseExtract(rd) ==
  IF ~StartsWith(rd.line, RESPONSE_PREFIX) THEN NoItem(rd)
  ELSE ResponseLine(GetEOL(rd))

ResponseContents(item) ==
  [ok |-> TRUE, bytes |-> RESPONSE_PREFIX \o item.data \o <<LF>>]

-----------------------------------------------------------------------------
(* Garmin: garmin.Message                                                   *)

GARMIN_HDR_SIZE == 3
GARMIN_TRL_SIZE == 3
DLE == 16
ETX == 3

\* Message.Checksum of garmin: (-(sum(data) + msgtype + length)) & 0xFF
GarminChecksum(data, msgtype, length) ==
  (256 - ((Sum(data) + msgtype + length) % 256)) % 256

\* Message.Extract from "checksum, dle, etx = cls.TRAILER.unpack_from(...)"
\* on: unpack_from raises struct.error when fewer than 3 bytes follow pos.
GarminTrailer(rd, pos, body, tlength, msgtype, length) ==
  IF Len(rd.line) < pos + GARMIN_TRL_SIZE THEN Raised("struct.error", rd)
  ELSE IF GarminChecksum(body, msgtype, length) # rd.line[pos + 1]
          \/ rd.line[pos + 2] # DLE \/ rd.line[pos + 3] # ETX
  THEN NoItem(rd)
  ELSE Got(MakeItem("Garmin", body, length, msgtype, <<>>, FALSE), tlength, rd)

\* "if len(bline) < tlength and not extracter.GetLine(): return None, 0",
\* given the result g of the GetLine.
GarminStuffedMore(g, pos, body, tlength, msgtype, length) ==
  IF ~g.ok THEN NoItem(g.rd)
  ELSE GarminTrailer(g.rd, pos, body, tlength, msgtype, length)

\* The stuffed-checksum branch: pos and tlength are already incremented;
\* bline[pos] raises IndexError past the end of the snapshot.
GarminStuffed(rd, bline, pos, body, tlength, msgtype, length) ==
  IF pos >= Len(bline) THEN Raised("IndexError", rd)
  ELSE IF bline[pos + 1] # DLE THEN NoItem(rd)
  ELSE IF Len(bline) < tlength
  THEN GarminStuffedMore(GetLine(rd, LINE_MAX), pos, body, tlength,
                         msgtype, length)
  ELSE GarminTrailer(rd, pos, body, tlength, msgtype, length)

\* Message.Extract from "char = bline[pos]" after the body loop on.
GarminAfterBody(rd, bline, pos, body, tlength, msgtype, length) ==
  IF pos >= Len(bline) THEN Raised("IndexError", rd)
  ELSE IF bline[pos + 1] = DLE
  THEN GarminStuffed(rd, bline, pos + 1, body, tlength + 1, msgtype, length)
  ELSE GarminTrailer(rd, pos, body, tlength, msgtype, length)

\* The body loop "while len(body) < length"; bline is the snapshot of the
\* buffer, refreshed only after a GetLine.
RECURSIVE GarminBody(_, _, _, _, _, _, _)

GarminBodyMore(g, pos, body, tlength, msgtype, length) ==
  IF ~g.ok THEN NoItem(g.rd)
  ELSE GarminBody(g.rd, g.rd.line, pos, body, tlength, msgtype, length)

\* The body loop without "tlength += 1": a stuffed DLE is not counted.
GarminBodyUncounted(rd, bline, pos, body, tlength, msgtype, length) ==
  IF Len(body) >= length
  THEN GarminAfterBody(rd, bline, pos, body, tlength, msgtype, length)
  ELSE IF Len(bline) < tlength
  THEN GarminBodyMore(GetLine(rd, LINE_MAX), pos, body, tlength,
                      msgtype, length)
  ELSE IF bline[pos + 1] # DLE
  THEN GarminBody(rd, bline, pos + 1, Append(body, bline[pos + 1]), tlength,
                  msgtype, length)
  ELSE IF bline[pos + 2] # DLE THEN NoItem(rd)
  ELSE GarminBody(rd, bline, pos + 2, Append(body, DLE), tlength,
                  msgtype, length)

GarminBody(rd, bline, pos, body, tlength, msgtype, length) ==
  IF Len(body) >= length
  THEN GarminAfterBody(rd, bline, pos, body, tlength, msgtype, length)
  ELSE IF Len(bline) < tlength
  THEN GarminBodyMore(GetLine(rd, LINE_MAX), pos, body, tlength,
                      msgtype, length)
  ELSE IF bline[pos + 1] # DLE
  THEN GarminBody(rd, bline, pos + 1, Append(body, bline[pos + 1]), tlength,
                  msgtype, length)
  ELSE IF bline[pos + 2] # DLE THEN NoItem(rd)
  ELSE GarminBody(rd, bline, pos + 2, Append(body, DLE), tlength + 1,
                  msgtype, length)

\* Message.Extract from "_, msgtype, length = cls.HEADER.unpack_from" on.
GarminStart(rd, msgtype, length, hdrlen) ==
  GarminBody(rd, rd.line, hdrlen, <<>>, hdrlen + length + GARMIN_TRL_SIZE,
             msgtype, length)

\* "while len(extracter.line) < cls.HDR_SIZE + 1"
RECURSIVE GarminHeader(_)

GarminHeaderMore(rd, g) == IF ~g.ok THEN NoItem(rd) ELSE GarminHeader(g.rd)

GarminHeader(rd) ==
  IF Len(rd.line) < GARMIN_HDR_SIZE + 1
  THEN GarminHeaderMore(rd, GetLine(rd, LINE_MAX))
  ELSE GarminStart(rd, rd.line[2], rd.line[3],
                   IF rd.line[3] = DLE THEN GARMIN_HDR_SIZE + 1
                   ELSE GARMIN_HDR_SIZE)

GarminExtract(rd) ==
  IF ~StartsWith(rd.line, <<DLE>>) THEN NoItem(rd) ELSE GarminHeader(rd)

\* Message.Contents of garmin reads self.SYNC and self.subtype, which no
\* Garmin item has, and unpacks an integer checksum: it raises for every item.
GarminContents(item) == [ok |-> FALSE, bytes |-> <<>>]

-----------------------------------------------------------------------------
(* Motorola Oncore: oncore.Message                                          *)

ONCORE_SYNC == <<64, 64>>
ONCORE_END == <<CR, LF>>
ONCORE_HDR_SIZE == 4
ONCORE_TRL_SIZE == 3
ONCORE_OVERHEAD == ONCORE_HDR_SIZE + ONCORE_TRL_SIZE
ONCORE_CKS_START == 2
ONCORE_END_LEN == 2
ONCORE_TRL_OFS == 0 - (ONCORE_TRL_SIZE - ONCORE_END_LEN)
ONCORE_MIN_END == ONCORE_OVERHEAD - ONCORE_END_LEN

\* Message.Checksum of oncore
OncoreChecksum(data) == XorAll(data)

\* Message.Extract after the loop, with the checksummed bytes cbody.
OncoreVerify(rd, ln, endpos, cbody) ==
  IF OncoreChecksum(cbody) # ln[endpos + ONCORE_TRL_OFS + 1] THEN NoItem(rd)
  ELSE IF ~IsAscii(Slice(ln, 2, 4)) THEN Raised("UnicodeDecodeError", rd)
  ELSE Got(MakeItem("Oncore", From(cbody, ONCORE_HDR_SIZE - ONCORE_CKS_START),
                    0, Slice(ln, 2, 4), <<>>, FALSE),
           endpos + ONCORE_END_LEN, rd)

\* The loop "while True: endpos = extracter.line.find(cls.END) ..."
RECURSIVE OncoreFill(_)

OncoreMore(rd, g) == IF ~g.ok THEN NoItem(rd) ELSE OncoreFill(g.rd)

OncoreAt(rd, endpos) ==
  IF endpos >= ONCORE_MIN_END
  THEN OncoreVerify(rd, rd.line, endpos,
                    Slice(rd.line, ONCORE_CKS_START, endpos + ONCORE_TRL_OFS))
  ELSE IF Len(rd.line) > LENGTH_LIMIT THEN NoItem(rd)
  ELSE OncoreMore(rd, GetLine(rd, ONCORE_END_LEN))

OncoreFill(rd) == OncoreAt(rd, Find(rd.line, ONCORE_END))

\* HEADER.unpack_from raises struct.error on a buffer shorter than the header.
OncoreExtract(rd) ==
  IF ~StartsWith(rd.line, ONCORE_SYNC) THEN NoItem(rd)
  ELSE IF Len(rd.line) < ONCORE_HDR_SIZE THEN Raised("struct.error", rd)
  ELSE OncoreFill(rd)

\* Message.Contents of oncore packs the str msgtype as bytes and unpacks an
\* integer checksum: it raises for every item.
OncoreContents(item) == [ok |-> FALSE, bytes |-> <<>>]

-----------------------------------------------------------------------------
(* The registry: Extracter.AddExtracter, BindExtracters, MergeExtracters    *)

\* An entry of extractables is <<class, priority>>.
\* "ent[1] == cls" compares the entry's priority, a number, with the class
\* being added: the two are never equal.
PrioEqualsClass(prio, cls) == FALSE

\* "isinstance(cls, ent[0])": cls is a class object, and a class object is an
\* instance of its metaclass only, never of a registered item class.
IsInstance(cls, entcls) == FALSE

\* The for loop of AddExtracter over extractables from entry num on.
RECURSIVE AddScan(_, _, _)
AddScan(exs, cls, num) ==
  IF num > Len(exs) THEN [op |-> "add", exs |-> exs]
  ELSE IF PrioEqualsClass(exs[num][2], cls) THEN [op |-> "return", exs |-> exs]
  ELSE IF IsInstance(cls, exs[num][1])
  THEN [op |-> "add",
        exs |-> SubSeq(exs, 1, num - 1) \o SubSeq(exs, num + 1, Len(exs))]
  ELSE AddScan(exs, cls, num + 1)

\* AddExtracter(cls, prio) on extractables exs with bound list bound.
AddExtracterTo(exs, bound, cls, prio) ==
  LET r == AddScan(exs, cls, 1)
  IN IF r.op = "return" THEN exs
     ELSE IF bound # <<>> THEN Append(r.exs, <<cls, prio>>)
     ELSE <<<<cls, prio>>>> \o r.exs

\* An insertion that puts an entry in front of the entries of its priority.
RECURSIVE InsertByPrioFront(_, _)
InsertByPrioFront(sorted, ent) ==
  IF sorted = <<>> THEN <<ent>>
  ELSE IF Head(sorted)[2] > ent[2]
  THEN <<Head(sorted)>> \o InsertByPrioFront(Tail(sorted), ent)
  ELSE <<ent>> \o sorted

\* sorted(extractables, key=itemgetter(1), reverse=True): stable.
RECURSIVE InsertByPrio(_, _)
InsertByPrio(sorted, ent) ==
  IF sorted = <<>> THEN <<ent>>
  ELSE IF Head(sorted)[2] >= ent[2] THEN <<Head(sorted)>> \o InsertByPrio(Tail(sorted), ent)
  ELSE <<ent>> \o sorted

RECURSIVE SortByPrio(_, _)
SortByPrio(exs, acc) ==
  IF exs = <<>> THEN acc ELSE SortByPrio(Tail(exs), InsertByPrio(acc, Head(exs)))

\* BindExtracters: the classes of extractables by descending priority.
BindExtractersOf(exs) ==
  LET sorted == SortByPrio(exs, <<>>)
  IN [i \in 1..Len(sorted) |-> sorted[i][1]]

\* The for loop of MergeExtracters.
RECURSIVE MergeInto(_, _, _)
MergeInto(exs, bound, other) ==
  IF other = <<>> THEN exs
  ELSE MergeInto(AddExtracterTo(exs, bound, Head(other)[1], Head(other)[2]),
                 bound, Tail(other))

\* The extractables the __new__ chain of each Extracter class builds: the
\* innermost base class adds first, every add goes to the front because
\* nothing is bound yet.  adds lists the registrations outermost class first.
\* sirf.BinaryExtracter and the two hemisphere extracters register with
\* AddExtracter(<extracter class>, <method name>[, prio]), a call form that
\* AddExtracter(cls, prio) does not accept; they are modelled as registering
\* their recognizer with the priority they name (0 where they name none).
RECURSIVE NewExtractables(_)
NewExtractables(adds) ==
  IF adds = <<>> THEN <<>>
  ELSE AddExtracterTo(NewExtractables(Tail(adds)), <<>>, Head(adds)[1], Head(adds)[2])

CommentExtracter == NewExtractables(<<<<"Comment", 0>>>>)
NmeaExtracter == NewExtractables(<<<<"Sentence", 0>>>>)
UbloxExtracter == NewExtractables(<<<<"Sentence", 0>>, <<"Ublox", 10>>>>)
GarminExtracter == NewExtractables(<<<<"Sentence", 0>>, <<"Garmin", 3>>>>)
OncoreExtracter == NewExtractables(<<<<"Sentence", 0>>, <<"Oncore", 3>>>>)
SirfExtracter == NewExtractables(<<<<"Sentence", 0>>, <<"Sirf", 5>>>>)
HemisphereExtracter ==
  NewExtractables(<<<<"Hemisphere", 0>>, <<"Sentence", 0>>, <<"Response", 0>>>>)

ExtracterClasses ==
  {NmeaExtracter, UbloxExtracter, GarminExtracter, OncoreExtracter,
   SirfExtracter, HemisphereExtracter}

-----------------------------------------------------------------------------
(* Dispatch                                                                 *)

Extract(cls, rd) ==
  CASE cls = "Sentence" -> SentenceExtract(rd)
    [] cls = "Comment" -> CommentExtract(rd)
    [] cls = "Ublox" -> UbloxExtract(rd)
    [] cls = "Sirf" -> SirfExtract(rd)
    [] cls = "Garmin" -> GarminExtract(rd)
    [] cls = "Oncore" -> OncoreExtract(rd)
    [] cls = "Hemisphere" -> HemisphereExtract(rd)
    [] cls = "Response" -> ResponseExtract(rd)

Contents(item) ==
  CASE item.cls = "Sentence" -> SentenceContents(item)
    [] item.cls = "Comment" -> CommentContents(item)
    [] item.cls = "Ublox" -> UbloxContents(item)
    [] item.cls = "Sirf" -> SirfContents(item)
    [] item.cls = "Garmin" -> GarminContents(item)
    [] item.cls = "Oncore" -> OncoreContents(item)
    [] item.cls = "Hemisphere" -> HemisphereContents(item)
    [] item.cls = "Response" -> ResponseContents(item)

\* "for extracter in self.extracters: ... if item: break", from recognizer
\* number i on; tried collects the recognizers called, in order.
RECURSIVE RunExtracters(_, _, _, _)

\* The loop body after the call of recognizer i returned r.
\* The loop body without its break: a match by a recognizer that is not the
\* last one is passed over.
RunNextNoBreak(exs, i, tried, r) ==
  IF r.kind = "none" \/ (r.kind = "item" /\ i < Len(exs))
  THEN RunExtracters(exs, i + 1, r.rd, Append(tried, exs[i]))
  ELSE [res |-> r, tried |-> Append(tried, exs[i])]

RunNext(exs, i, tried, r) ==
  IF r.kind = "none"
  THEN RunExtracters(exs, i + 1, r.rd, Append(tried, exs[i]))
  ELSE [res |-> r, tried |-> Append(tried, exs[i])]

RunExtracters(exs, i, rd, tried) ==
  IF i > Len(exs) THEN [res |-> NoItem(rd), tried |-> tried]
  ELSE RunNext(exs, i, tried, Extract(exs[i], rd))

\* _GetErrorItem: an ErrorItem for the skipped bytes, at the current charpos.
GetErrorItem(skip, pos) ==
  [MakeItem("ErrorItem", skip, 0, <<>>, <<>>, FALSE)
     EXCEPT !.charpos = pos, !.span = skip]

\* "if self.skipped: yield self._GetErrorItem()"
YieldSkipped(skip, pos) == IF skip # <<>> THEN <<GetErrorItem(skip, pos)>> ELSE <<>>

-----------------------------------------------------------------------------
(* Input streams.  A well-formed frame of each format is built to the       *)
(* format's framing rule; the streams of Init are made of a run of          *)
(* unrecognizable bytes, then a frame or a truncated frame, then a tail.    *)

MaxJunk == 2
MaxRegOps == 2

NmeaFrame(body, eol) == <<DOLLAR>> \o body \o eol

NmeaChecked(body, hex, eol) == <<DOLLAR>> \o body \o <<STAR>> \o hex \o eol

UbloxFrame(msgtype, subtype, body) ==
  LET cbody == <<msgtype, subtype>> \o PackLE16(Len(body)) \o body
      a == Sum(cbody) % 256
      b == Sum([i \in 1..Len(cbody) |-> (Len(cbody) - i + 1) * cbody[i]]) % 256
  IN UBX_SYNC \o cbody \o <<a, b>>

SirfFrame(body) ==
  SIRF_SYNC \o PackBE16(Len(body)) \o body \o PackBE16(Sum(body) % 32768)
    \o SIRF_END

\* DLE stuffing: every DLE is doubled.
RECURSIVE Stuff(_)
Stuff(s) ==
  IF s = <<>> THEN <<>>
  ELSE IF Head(s) = DLE THEN <<DLE, DLE>> \o Stuff(Tail(s))
  ELSE <<Head(s)>> \o Stuff(Tail(s))

GarminFrame(msgtype, body) ==
  LET cks == (256 - ((msgtype + Len(body) + Sum(body)) % 256)) % 256
  IN <<DLE, msgtype>> \o Stuff(<<Len(body)>> \o body \o <<cks>>) \o <<DLE, ETX>>

\* The two's-complement checksum byte of a Garmin message.
GarminCks(msgtype, body) == (256 - ((msgtype + Len(body) + Sum(body)) % 256)) % 256

\* A Garmin frame in which every DLE of type, length, body and checksum is
\* doubled.
GarminStuffedFrame(msgtype, body) ==
  <<DLE>> \o Stuff(<<msgtype, Len(body)>> \o body \o <<GarminCks(msgtype, body)>>)
    \o <<DLE, ETX>>

OncoreFrame(msgtype, body) ==
  ONCORE_SYNC \o msgtype \o body \o <<XorAll(msgtype \o body)>> \o <<CR, LF>>

HemisphereFrame(msgtype, body) ==
  HEMI_SYNC \o PackLE16(msgtype) \o PackLE16(Len(body)) \o body
    \o PackLE16(Sum(body) % 65536) \o <<CR, LF>>

\* A Hemisphere frame with the trailer checksum cks.
HemisphereFramed(msgtype, body, cks) ==
  HEMI_SYNC \o PackLE16(msgtype) \o PackLE16(Len(body)) \o body
    \o PackLE16(cks) \o <<CR, LF>>

\* The shortest body whose byte sum does not fit 16 bits: 258 bytes FF.
WrapBody == [i \in 1..258 |-> 255]

\* "GP,1": a two-field sentence body; its XOR checksum is 0A.
GP1 == <<71, 80, COMMA, 49>>

\* The Garmin message type whose empty message has the checksum DLE.
STUFFED_CKS_TYPE == 256 - DLE

\* A body of DLE bytes 7, a length that is itself stuffed.
DleLenBody == [i \in 1..DLE |-> 7]

\* Garmin frames by position of a DLE: doubled as the rule says (valid), or
\* followed by a 7 or by the next field instead of a second DLE.
GarminChecked ==
  { [bytes |-> GarminStuffedFrame(1, <<DLE>>), valid |-> TRUE],
    [bytes |-> <<DLE, 1, 1, DLE, 7, GarminCks(1, <<DLE>>), DLE, ETX>>,
     valid |-> FALSE],
    [bytes |-> GarminStuffedFrame(1, DleLenBody), valid |-> TRUE],
    [bytes |-> <<DLE, 1, DLE, 7>> \o DleLenBody
                 \o <<GarminCks(1, DleLenBody), DLE, ETX>>,
     valid |-> FALSE],
    [bytes |-> GarminStuffedFrame(STUFFED_CKS_TYPE, <<>>), valid |-> TRUE],
    [bytes |-> <<DLE, STUFFED_CKS_TYPE, 0, DLE, 7, DLE, ETX>>, valid |-> FALSE],
    [bytes |-> GarminStuffedFrame(DLE, <<>>), valid |-> TRUE],
    [bytes |-> <<DLE, DLE, 0, GarminCks(DLE, <<>>), DLE, ETX>>, valid |-> FALSE] }

\* Oncore frames that end at their first CR LF at or after ONCORE_MIN_END:
\* with no CR LF before it, with a CR LF at offset 4 (the first body bytes)
\* and at offset 3 (the second type byte and the first body byte); and a
\* frame with a wrong checksum.
OncoreChecked ==
  { [bytes |-> OncoreFrame(<<69, 97>>, <<8>>), valid |-> TRUE],
    [bytes |-> OncoreFrame(<<69, 97>>, <<CR, LF, 8>>), valid |-> TRUE],
    [bytes |-> OncoreFrame(<<69, CR>>, <<LF, 8>>), valid |-> TRUE],
    [bytes |-> ONCORE_SYNC \o <<69, 97, 8, 0, CR, LF>>, valid |-> FALSE] }

Frames ==
  { [fmt |-> "Sentence", bytes |-> NmeaFrame(GP1, <<CR, LF>>)],
    [fmt |-> "Sentence", bytes |-> NmeaFrame(GP1, <<LF>>)],
    [fmt |-> "Sentence", bytes |-> NmeaFrame(GP1, <<CR>>)],
    [fmt |-> "Sentence", bytes |-> NmeaChecked(GP1, <<48, 65>>, <<CR, LF>>)],
    [fmt |-> "Sentence", bytes |-> NmeaChecked(GP1, <<48, 97>>, <<CR, LF>>)],
    [fmt |-> "Comment", bytes |-> <<HASH, 99, LF>>],
    [fmt |-> "Response", bytes |-> RESPONSE_PREFIX \o <<111, 107, LF>>],
    [fmt |-> "Ublox", bytes |-> UbloxFrame(1, 2, <<>>)],
    [fmt |-> "Ublox", bytes |-> UbloxFrame(1, 2, <<7>>)],
    [fmt |-> "Sirf", bytes |-> SirfFrame(<<>>)],
    [fmt |-> "Sirf", bytes |-> SirfFrame(<<5>>)],
    [fmt |-> "Garmin", bytes |-> GarminFrame(1, <<>>)],
    [fmt |-> "Garmin", bytes |-> GarminFrame(1, <<7>>)],
    [fmt |-> "Garmin", bytes |-> GarminFrame(1, <<DLE>>)],
    [fmt |-> "Garmin", bytes |-> GarminFrame(STUFFED_CKS_TYPE, <<>>)],
    [fmt |-> "Garmin", bytes |-> GarminFrame(1, [i \in 1..DLE |-> 7])],
    [fmt |-> "Oncore", bytes |-> OncoreFrame(<<69, 97>>, <<>>)],
    [fmt |-> "Oncore", bytes |-> OncoreFrame(<<69, 97>>, <<8>>)],
    [fmt |-> "Hemisphere", bytes |-> HemisphereFrame(1, <<>>)],
    [fmt |-> "Hemisphere", bytes |-> HemisphereFrame(1, <<7>>)] }

\* Bytes no recognizer starts at.
JunkBytes == {65}

\* The start of a u-Blox frame of declared length 3 that was cut off after an
\* LF in its body.
BrokenUblox == UBX_SYNC \o <<1, 2, 3, 0, LF>>

\* The header of a Hemisphere frame that declares 9 body bytes: with the
\* trailer, one byte more than a following frame with an empty body holds.
BrokenHemisphere == HEMI_SYNC \o PackLE16(1) \o PackLE16(Len(HemisphereFrame(1, <<>>)) - 3)

Junks ==
  {[i \in 1..n |-> b] : n \in 0..MaxJunk, b \in JunkBytes}
  \cup {BrokenUblox, BrokenHemisphere}

Tails == {<<>>} \cup {<<b>> : b \in JunkBytes}

\* Unrecognizable bytes that fill the first bounded read of LINE_MAX bytes
\* up to its last two bytes.
LongJunks == {[i \in 1..(LINE_MAX - 2) |-> b] : b \in JunkBytes}

\* The characters a sentence's two checksum characters are drawn from:
\* "0", "A", "B", "a", "+" and a blank.
ChecksumChars == {48, 65, 66, 97, 43, SPACE}

\* The two characters are the two hex digits of value v, in either case.
IsHexOf(hex, v) ==
  IsHex(hex[1]) /\ IsHex(hex[2]) /\ 16 * HexVal(hex[1]) + HexVal(hex[2]) = v

\* Streams that are one frame whose integrity bytes are right (valid) or
\* wrong by the framing rule of the format.
CheckedLayouts ==
  {[junk |-> <<>>, frame |-> NmeaChecked(GP1, <<a, b>>, <<CR, LF>>),
    tail |-> <<>>, fmt |-> "Sentence", kind |-> "checked",
    valid |-> IsHexOf(<<a, b>>, XorAll(GP1))] :
     a \in ChecksumChars, b \in ChecksumChars}
  \cup
  {[junk |-> <<>>, frame |-> HemisphereFramed(1, c.body, c.cks),
    tail |-> <<>>, fmt |-> "Hemisphere", kind |-> "checked",
    valid |-> c.cks = Sum(c.body) % 65536] :
     c \in {[body |-> <<7>>, cks |-> 7], [body |-> <<7>>, cks |-> 8],
            [body |-> <<7>>, cks |-> 7 + 256],
            [body |-> WrapBody, cks |-> Sum(WrapBody) % 65536],
            [body |-> WrapBody, cks |-> 0]}}
  \cup
  {[junk |-> <<>>, frame |-> c.bytes, tail |-> <<>>, fmt |-> "Garmin",
    kind |-> "checked", valid |-> c.valid] : c \in GarminChecked}
  \cup
  {[junk |-> <<>>, frame |-> c.bytes, tail |-> <<>>, fmt |-> "Oncore",
    kind |-> "checked", valid |-> c.valid] : c \in OncoreChecked}

Layouts ==
  {[junk |-> j, frame |-> f.bytes, tail |-> t, fmt |-> f.fmt, kind |-> "frame"] :
     j \in Junks, f \in Frames, t \in Tails}
  \cup
  {[junk |-> j, frame |-> NmeaFrame(GP1, <<CR, LF>>), tail |-> <<>>,
    fmt |-> "Sentence", kind |-> "frame"] : j \in LongJunks}
  \cup
  UNION {{[junk |-> <<>>, frame |-> SubSeq(f.bytes, 1, n), tail |-> <<>>,
           fmt |-> f.fmt, kind |-> "truncated"] : n \in 1..(Len(f.bytes) - 1)} :
         f \in Frames}
  \cup CheckedLayouts

StreamOf(lay) == lay.junk \o lay.frame \o lay.tail

-----------------------------------------------------------------------------
(* The state machine                                                        *)

NoStep == [kind |-> "none", tried |-> <<>>, consumed |-> 0, pos |-> 0,
           buf |-> <<>>, skip |-> <<>>]

\* main before a program runs: Spec and SpecReg drive the Extracter alone.
NoMain ==
  [prog |-> "none", stop_on_errors |-> FALSE, stop_on_warnings |-> FALSE,
   filter |-> {}, done |-> 0, stage |-> "for", fields |-> <<>>,
   calls |-> <<>>, output |-> <<>>, exc |-> "none"]

\* generic.Decoder.__init__ and NmeaDecoder.__init__ for a class whose
\* bound DECODER_DICT is decoder_dict.  A dict is a function on its keys,
\* the empty dict the empty sequence.  session and log are not attributes of
\* the program's decoder: session names the sentences it is handed, log
\* holds them with what Parse and Decode made of each.
NewDecoder(session, decoder_dict) ==
  [session |-> session, decoder_dict |-> decoder_dict, last_time |-> None,
   _last_gsa |-> <<>>, _last_grs |-> <<>>, _gsv_dict |-> <<>>,
   _gsv_time |-> None, log |-> <<>>]

\* decoder where the specification does not follow the decoder's state.
NoDecoder == NewDecoder("none", <<>>)

\* No function has been called on its own.
NoCall == [func |-> "None"]

\* instances where the specification has no decoders.
NoInstances == [objs |-> <<>>, at |-> <<>>, logs |-> <<>>]

Init ==
  \E exs \in ExtracterClasses, lay \in Layouts :
    /\ stream = StreamOf(lay)
    /\ input = stream
    /\ layout = lay
    /\ line = <<>>
    /\ charpos = 0
    /\ linenum = 0
    /\ skipped = <<>>
    /\ extended = FALSE
    /\ extractables = exs
    /\ extracters = BindExtractersOf(exs)
    /\ items = <<>>
    /\ pc = "new"
    /\ error = "none"
    /\ last = NoStep
    /\ nreg = 0
    /\ main = NoMain
    /\ decoder = NoDecoder
    /\ instances = NoInstances
    /\ call = NoCall

\* "if not self.line: if not self.GetLine(): ...": the reader as the
\* recognizers of this iteration find it; ok is FALSE at end of input.
TopOf(rd) == IF rd.line = <<>> THEN GetLine(rd, LINE_MAX) ELSE Filled(rd)

\* One iteration of the while loop of GetItems up to the end of the for
\* loop: kind "end" when the input is exhausted, else the recognizers' result.
IterationOf(exs, top) ==
  IF ~top.ok THEN [res |-> [NoItem(top.rd) EXCEPT !.kind = "end"], tried |-> <<>>]
  ELSE RunExtracters(exs, 1, top.rd, <<>>)

Iteration ==
  IterationOf(extracters, TopOf(Reader(line, input, extended, linenum)))

Running == pc \in {"new", "run"}

SetReader(rd) ==
  /\ input' = rd.input
  /\ extended' = rd.extended
  /\ linenum' = rd.linenum

\* What an iteration leaves in last.
StepOf(kind, d) ==
  [kind |-> kind, tried |-> d.tried, consumed |-> d.res.consumed,
   pos |-> charpos, buf |-> d.res.rd.line, skip |-> skipped]

EndWith(d) ==
  /\ d.res.kind = "end"
  /\ items' = items \o YieldSkipped(skipped, charpos)
  /\ skipped' = <<>>
  /\ pc' = "done"
  /\ last' = StepOf("end", d)
  /\ UNCHANGED <<stream, input, line, charpos, linenum, extended,
                 extractables, extracters, error, nreg, layout, main, decoder, instances, call>>

YieldWith(d) ==
  /\ d.res.kind = "item"
  /\ items' = items \o YieldSkipped(skipped, charpos)
                \o <<[d.res.item EXCEPT
                       !.charpos = charpos,
                       !.span = Slice(d.res.rd.line, 0, d.res.consumed)]>>
  /\ skipped' = <<>>
  /\ line' = From(d.res.rd.line, d.res.consumed)
  /\ charpos' = charpos + d.res.consumed
  /\ SetReader(d.res.rd)
  /\ last' = StepOf("item", d)
  /\ pc' = "run"
  /\ UNCHANGED <<stream, extractables, extracters, error, nreg, layout, main, decoder, instances, call>>

\* A skip that discards nothing: the first byte stays in the buffer.
SkipWithNothing(d) ==
  /\ d.res.kind = "none"
  /\ line' = d.res.rd.line
  /\ SetReader(d.res.rd)
  /\ last' = StepOf("skip", d)
  /\ pc' = "run"
  /\ UNCHANGED <<stream, charpos, skipped, items, extractables, extracters,
                 error, nreg, layout, main, decoder, instances, call>>

SkipWith(d) ==
  /\ d.res.kind = "none"
  /\ IF d.res.rd.line # <<>>
     THEN /\ skipped' = Append(skipped, Head(d.res.rd.line))
          /\ line' = Tail(d.res.rd.line)
          /\ charpos' = charpos + 1
          /\ items' = items
     ELSE /\ items' = items \o YieldSkipped(skipped, charpos)
          /\ skipped' = <<>>
          /\ line' = d.res.rd.line
          /\ charpos' = charpos
  /\ SetReader(d.res.rd)
  /\ last' = StepOf("skip", d)
  /\ pc' = "run"
  /\ UNCHANGED <<stream, extractables, extracters, error, nreg, layout, main, decoder, instances, call>>

RaiseWith(d) ==
  /\ d.res.kind = "raise"
  /\ line' = d.res.rd.line
  /\ SetReader(d.res.rd)
  /\ last' = StepOf("raise", d)
  /\ pc' = "raised"
  /\ error' = d.res.exc
  /\ UNCHANGED <<stream, charpos, skipped, extractables, extracters, items,
                 nreg, layout, main, decoder, instances, call>>

\* GetItems, an iteration that finds the input exhausted.
GetItemsEnd == Running /\ EndWith(Iteration)

\* GetItems, an iteration in which a recognizer returns an item.
GetItemsYield == Running /\ YieldWith(Iteration)

\* GetItems, an iteration in which no recognizer returns an item.
GetItemsSkip == Running /\ SkipWith(Iteration)

\* GetItems, an iteration in which a recognizer raises: the exception leaves
\* the generator, which yields nothing more.
GetItemsRaise == Running /\ RaiseWith(Iteration)

\* Extracter.AllowComments, called before iteration starts.
AllowComments ==
  /\ pc = "new"
  /\ nreg < MaxRegOps
  /\ extractables' = MergeInto(extractables, extracters, CommentExtracter)
  /\ extracters' = BindExtractersOf(extractables')
  /\ nreg' = nreg + 1
  /\ UNCHANGED <<stream, input, line, charpos, linenum, skipped, extended,
                 items, pc, error, last, layout, main, decoder, instances, call>>

Next ==
  \/ AllowComments
  \/ GetItemsEnd
  \/ GetItemsYield
  \/ GetItemsSkip
  \/ GetItemsRaise

Spec == Init /\ [][Next]_vars

-----------------------------------------------------------------------------
(* The registry on its own: an Extracter on an empty source, on which the   *)
(* registry methods are called in any order before iteration starts.        *)

\* The classes a caller registers: the item classes of the source and
\* DerivedSentence, a class the caller derives from nmea.Sentence.
ItemClasses ==
  {"Sentence", "Comment", "Ublox", "Sirf", "Garmin", "Oncore", "Hemisphere",
   "Response", "DerivedSentence"}

\* issubclass(cls, anc) for two different classes of ItemClasses: the item
\* classes of the source do not derive from one another.
IsSubclass(cls, anc) == cls = "DerivedSentence" /\ anc = "Sentence"

\* The priorities the Extracter classes register with.
Priorities == {0, 3, 5, 10}

InitReg ==
  \E exs \in ExtracterClasses :
    /\ stream = <<>>
    /\ input = <<>>
    /\ layout = [junk |-> <<>>, frame |-> <<>>, tail |-> <<>>, fmt |-> "none",
                 kind |-> "empty"]
    /\ line = <<>>
    /\ charpos = 0
    /\ linenum = 0
    /\ skipped = <<>>
    /\ extended = FALSE
    /\ extractables = exs
    /\ extracters = BindExtractersOf(exs)
    /\ items = <<>>
    /\ pc = "new"
    /\ error = "none"
    /\ last = NoStep
    /\ nreg = 0
    /\ main = NoMain
    /\ decoder = NoDecoder
    /\ instances = NoInstances
    /\ call = NoCall

RegUnchanged ==
  UNCHANGED <<stream, input, line, charpos, linenum, skipped, extended,
              items, pc, error, last, layout, main, decoder, instances, call>>

\* Extracter.AddExtracter(cls, prio)
AddExtracter ==
  /\ pc = "new"
  /\ nreg < MaxRegOps
  /\ \E cls \in ItemClasses, prio \in Priorities :
       extractables' = AddExtracterTo(extractables, extracters, cls, prio)
  /\ nreg' = nreg + 1
  /\ UNCHANGED extracters
  /\ RegUnchanged

\* Extracter.BindExtracters()
BindExtracters ==
  /\ pc = "new"
  /\ extracters' = BindExtractersOf(extractables)
  /\ UNCHANGED <<extractables, nreg>>
  /\ RegUnchanged

\* Extracter.MergeExtracters(other), other a fresh Extracter of some class
MergeExtracters ==
  /\ pc = "new"
  /\ nreg < MaxRegOps
  /\ \E other \in ExtracterClasses \cup {CommentExtracter} :
       extractables' = MergeInto(extractables, extracters, other)
  /\ extracters' = BindExtractersOf(extractables')
  /\ nreg' = nreg + 1
  /\ RegUnchanged

NextReg ==
  \/ AddExtracter
  \/ BindExtracters
  \/ MergeExtracters
  \/ AllowComments

SpecReg == InitReg /\ [][NextReg]_vars

-----------------------------------------------------------------------------
(* The stages after extraction: Parser.Parse, Decoder.Decode, Formatter.Put *)

\* The fields BaseItem.__init__ sets to None and the stages fill in.
NewFields ==
  [parser |-> "None", parsed |-> None, parse_error |-> "None",
   decoded |-> None, decode_error |-> "None", error_data |-> None]

\* item.PARSE_CLASS: nmea.Sentence and the binary messages have one,
\* ErrorItem and Comment inherit None from BaseItem.
PARSE_CLASS(item) ==
  CASE item.cls = "Sentence" -> "NmeaParser"
    [] item.cls \in {"Ublox", "Garmin"} -> "BinaryParser"
    [] OTHER -> "None"

GPGRS == <<71, 80, 71, 82, 83>>
GPGLL == <<71, 80, 71, 76, 76>>
GPGGA == <<71, 80, 71, 71, 65>>
GPZDA == <<71, 80, 90, 68, 65>>
GPGSA == <<71, 80, 71, 83, 65>>
GPGSV == <<71, 80, 71, 83, 86>>
GLGSV == <<71, 76, 71, 83, 86>>

\* NmeaParser.NMEA_DICT, for the sentence types of the streams below.
NMEA_DICT ==
  (GPGGA :> "ParseGGA") @@ (GPGLL :> "ParseGLL") @@ (GPZDA :> "ParseZDA")
  @@ (GPGSA :> "ParseGSA") @@ (GPGRS :> "ParseGRS")
  @@ (GPGSV :> "ParseGPGSV") @@ (GLGSV :> "ParseGLGSV")

\* parse_class.GetParser(item.msgtype).  NMEA_DICT.get(msgtype); the
\* MESSAGE_DICT of the u-Blox and Garmin BinaryParser has no entry.
GetParser(parse_class, msgtype) ==
  IF parse_class = "NmeaParser" /\ msgtype \in DOMAIN NMEA_DICT
  THEN NMEA_DICT[msgtype]
  ELSE "None"

\* parser.MIN_LENGTH: len(PARSED._fields) with the adjustments of each
\* class; ParseGPGSV and ParseGLGSV inherit that of ParseGSV.
MIN_LENGTH(parser) ==
  CASE parser = "ParseGGA" -> 10
    [] parser = "ParseGLL" -> 4
    [] parser = "ParseZDA" -> 5
    [] parser = "ParseGSA" -> 7 - 1
    [] parser = "ParseGRS" -> 5 - 2
    [] OTHER -> 6 - 1 + 4 - 1

\* ParseGSV.FULL_MIN_LENGTH
FULL_MIN_LENGTH == MIN_LENGTH("ParseGSV") + 4 * (4 - 1)

\* What a call of a stage does: ret is "record", "none" or "raise", fields
\* the item's fields after the call.
Returned(ret, fields) == [ret |-> ret, fields |-> fields]

\* int(s) and float(s) of a field made of digits and letters: the value of
\* a non-empty run of digits, ValueError (ok FALSE) otherwise.
AllDigits(s) == s # <<>> /\ \A i \in 1..Len(s) : IsDigit(s[i])

RECURSIVE DecVal(_)
DecVal(s) == IF s = <<>> THEN 0 ELSE 10 * DecVal(SubSeq(s, 1, Len(s) - 1)) + (s[Len(s)] - 48)

\* ParseGRS.Parse: data[15] and data[16] are optional, data[1] and data[2]
\* are within the MIN_LENGTH fields.
ParseGRS(item, fields) ==
  Returned("record",
           [fields EXCEPT !.parsed =
              [cls |-> "GxGRS", time |-> item.data[2], mode |-> item.data[3],
               residuals |-> SelectSeq(SubSeq(item.data, 4, Min(Len(item.data), 15)),
                                       LAMBDA r : r # <<>>),
               system |-> IF Len(item.data) >= 16 THEN item.data[16] ELSE <<>>,
               signal |-> IF Len(item.data) >= 17 THEN item.data[17] ELSE <<>>]])

\* ParseGLL.Parse reads data[5] and data[6]: IndexError on a sentence of
\* fewer than seven fields, which MIN_LENGTH lets through.
ParseGLL(item, fields) ==
  IF Len(item.data) < 7 THEN Returned("raise", fields)
  ELSE Returned("record",
                [fields EXCEPT !.parsed =
                   [cls |-> "GxGLL", lats |-> SubSeq(item.data, 2, 3),
                    lons |-> SubSeq(item.data, 4, 5),
                    time |-> item.data[6], status |-> item.data[7]]])

\* ParseGGA.Parse reads data[1] to data[14]: IndexError on a sentence of
\* fewer than fifteen fields, of which MIN_LENGTH demands ten.
ParseGGA(item, fields) ==
  IF Len(item.data) < 15 THEN Returned("raise", fields)
  ELSE Returned("record",
                [fields EXCEPT !.parsed =
                   [cls |-> "GxGGA", time |-> item.data[2],
                    lats |-> Slice(item.data, 2, 4), lons |-> Slice(item.data, 4, 6),
                    qual |-> item.data[7], num_sats |-> item.data[8],
                    hdop |-> item.data[9], alts |-> Slice(item.data, 9, 11),
                    geoids |-> Slice(item.data, 11, 13),
                    age |-> item.data[14], refid |-> item.data[15]]])

\* ParseZDA.Parse: data[1] to data[4] are within MIN_LENGTH, the zone is
\* the slice data[5:7], of two fields or fewer.
ParseZDA(item, fields) ==
  Returned("record",
           [fields EXCEPT !.parsed =
              [cls |-> "GxZDA", time |-> item.data[2], day |-> item.data[3],
               month |-> item.data[4], year |-> item.data[5],
               zone |-> Slice(item.data, 5, 7)]])

\* ParseGSA.Parse: data[18] is optional, data[15] to data[17] are read
\* unguarded: IndexError on a sentence of fewer than eighteen fields.
ParseGSA(item, fields) ==
  IF Len(item.data) < 18 THEN Returned("raise", fields)
  ELSE Returned("record",
                [fields EXCEPT !.parsed =
                   [cls |-> "GxGSA", acq_mode |-> item.data[2],
                    pos_mode |-> item.data[3],
                    sat_list |-> SelectSeq(Slice(item.data, 3, 15),
                                           LAMBDA f : f # <<>>),
                    pdop |-> item.data[16], hdop |-> item.data[17],
                    vdop |-> item.data[18],
                    system |-> IF Len(item.data) >= 19 THEN item.data[19]
                               ELSE <<>>]])

\* int(value): the value of a non-empty run of digits, ValueError otherwise.
IntOr(value, default) == IF AllDigits(value) THEN DecVal(value) ELSE default

\* data[lo:hi] and data[i] of Python, where a negative index counts from the
\* end; Index is [ok, val], ok FALSE for the IndexError.
PySlice(s, lo, hi) ==
  Slice(s, lo, IF hi < 0 THEN (IF Len(s) + hi < 0 THEN 0 ELSE Len(s) + hi) ELSE hi)

Index(s, i) ==
  IF i >= 0 /\ i < Len(s) THEN [ok |-> TRUE, val |-> s[i + 1]]
  ELSE IF i < 0 /\ Len(s) + i >= 0 THEN [ok |-> TRUE, val |-> s[Len(s) + i + 1]]
  ELSE [ok |-> FALSE, val |-> <<>>]

\* zip(*[iter(s)]*4): the complete groups of four, in order.
Quads(s) == [i \in 1..(Len(s) \div 4) |-> SubSeq(s, 4 * i - 3, 4 * i)]

SAT_VIEW(s) == [sat |-> s[1], elev |-> s[2], az |-> s[3], snr |-> s[4]]

\* ParseGSV.ParseCommon from "sat_data = zip(...)" on.
ParseGSVSats(item, fields, sysid, sats_end) ==
  Returned("record",
           [fields EXCEPT !.parsed =
              [cls |-> "GxGSV", num_msgs |-> item.data[2],
               msg_num |-> item.data[3], num_sats |-> item.data[4],
               sat_views |-> [i \in 1..Len(SelectSeq(Quads(PySlice(item.data, 4, sats_end)),
                                                     LAMBDA q : q[1] # <<>>)) |->
                                SAT_VIEW(SelectSeq(Quads(PySlice(item.data, 4, sats_end)),
                                                   LAMBDA q : q[1] # <<>>)[i])],
               signal |-> Index(item.data, sats_end).val,
               system |-> sysid]])

\* ParseGSV.ParseCommon up to the else branch, with the three integers of
\* the try statement.  num_entries is assigned only when msg_num equals
\* num_msgs: the next line raises UnboundLocalError when it does not.
ParseGSVShort(item, fields, sysid, num_msgs, msg_num, num_sats) ==
  IF msg_num # num_msgs THEN Returned("raise", fields)
  ELSE ParseGSVSats(item, fields, sysid, 4 * (num_sats - (msg_num - 1) * 4) * 4)

\* ParseGSV.ParseCommon
ParseCommon(item, fields, sysid) ==
  IF item.length < FULL_MIN_LENGTH
  THEN IF /\ AllDigits(item.data[2]) /\ AllDigits(item.data[3])
          /\ AllDigits(item.data[4])
       THEN ParseGSVShort(item, fields, sysid, DecVal(item.data[2]),
                          DecVal(item.data[3]), DecVal(item.data[4]))
       ELSE ParseGSVShort(item, fields, sysid, 0, 0, 4)
  ELSE ParseGSVSats(item, fields, sysid, 20)

\* Constants.SYSTEM_ID_GPS and SYSTEM_ID_GLONASS
SYSTEM_ID_GPS == 1
SYSTEM_ID_GLONASS == 2

\* NmeaParser.ParseData
ParseData(parser, item, fields) ==
  IF item.length < MIN_LENGTH(parser)
  THEN Returned("none", [fields EXCEPT !.parse_error = "Truncated sentence",
                                       !.parsed = None])
  ELSE CASE parser = "ParseGGA" -> ParseGGA(item, fields)
         [] parser = "ParseGLL" -> ParseGLL(item, fields)
         [] parser = "ParseZDA" -> ParseZDA(item, fields)
         [] parser = "ParseGSA" -> ParseGSA(item, fields)
         [] parser = "ParseGRS" -> ParseGRS(item, fields)
         [] parser = "ParseGPGSV" -> ParseCommon(item, fields, <<48 + SYSTEM_ID_GPS>>)
         [] OTHER -> ParseCommon(item, fields, <<48 + SYSTEM_ID_GLONASS>>)

\* Parser.Parse from "item.parser = parser" on.
ParseWith(parser, item, fields) ==
  IF parser = "None" THEN Returned("none", [fields EXCEPT !.parsed = None])
  ELSE ParseData(parser, item, fields)

\* Parser.Parse(item)
Parse(item, fields) ==
  ParseWith(GetParser(PARSE_CLASS(item), item.msgtype), item,
            [fields EXCEPT !.parser = GetParser(PARSE_CLASS(item), item.msgtype)])

\* NmeaDecoder.DecodeNmeaTime: None when one of the four conversions raises
\* ValueError, as on a field shorter than seven characters.
DecodeNmeaTime(field) ==
  IF /\ AllDigits(Slice(field, 0, 2)) /\ AllDigits(Slice(field, 2, 4))
     /\ AllDigits(Slice(field, 4, 6)) /\ AllDigits(From(field, 6))
  THEN [cls |-> "time", hour |-> DecVal(Slice(field, 0, 2)),
        minute |-> DecVal(Slice(field, 2, 4)),
        second |-> DecVal(Slice(field, 4, 6)), fraction |-> From(field, 6)]
  ELSE None

\* Python's None-or-number results are tuples here: None is <<>>, the
\* number n is <<n>>.  float(s) is taken on runs of digits, as int(s).
\* NmeaDecoder.DecodeInt and DecodeFloat: None for an empty field, else the
\* conversion, which raises ValueError unless DecodeIntOk.
DecodeIntOk(value) == value = <<>> \/ AllDigits(value)

DecodeInt(value) == IF value = <<>> THEN <<>> ELSE <<DecVal(value)>>

\* "self.DecodeInt(value) or default": None and 0 give the default.
IntOrDefault(value, default) ==
  IF value = <<>> \/ DecVal(value) = 0 THEN default ELSE DecVal(value)

\* What a decode function does: ret and fields as for Returned, self the
\* decoder after the call.
Decoded(ret, fields, self) == [ret |-> ret, fields |-> fields, self |-> self]

\* MakeTimeHMSN with store=True, as DecodeNmeaTime calls it.  last_dtime
\* stays None unless a date is decoded and is not followed.
StoreTime(self, time) ==
  IF time = None THEN self ELSE [self EXCEPT !.last_time = time]

\* NmeaDecoder.DecodeNmeaLL1: (None, None) on a value that is not a number,
\* else degrees and minutes, held here in minutes of arc.
DecodeNmeaLL1(data) ==
  IF AllDigits(data[1])
  THEN <<60 * (DecVal(data[1]) \div 100) + (DecVal(data[1]) % 100)>>
  ELSE <<>>

\* NmeaDecoder.DecodeNmeaAlt: float(data[0]) is outside any try statement.
DecodeNmeaAltOk(data) == data[1] = <<>> \/ AllDigits(data[1])

\* DecodeGGA after the time is decoded: DecodeInt, DecodeFloat and
\* DecodeNmeaAlt raise ValueError on a field that is not a number.
DecodeGGAFields(self, fields, parsed, time) ==
  IF /\ DecodeIntOk(parsed.num_sats) /\ DecodeIntOk(parsed.hdop)
     /\ DecodeNmeaAltOk(parsed.alts) /\ DecodeNmeaAltOk(parsed.geoids)
     /\ DecodeIntOk(parsed.age)
  THEN Decoded("record",
               [fields EXCEPT !.decoded =
                  [cls |-> "dGGA", time |-> time,
                   lat |-> DecodeNmeaLL1(parsed.lats),
                   lon |-> DecodeNmeaLL1(parsed.lons),
                   num_sats |-> DecodeInt(parsed.num_sats),
                   hdop |-> DecodeInt(parsed.hdop),
                   alt |-> DecodeInt(parsed.alts[1]),
                   geoid |-> DecodeInt(parsed.geoids[1]),
                   age |-> DecodeInt(parsed.age)]],
               self)
  ELSE Decoded("raise", fields, self)

\* NmeaDecoder.DecodeGGA
DecodeGGA(self, fields) ==
  IF DecodeNmeaTime(fields.parsed.time) = None
  THEN Decoded("none", [fields EXCEPT !.decoded = None], self)
  ELSE DecodeGGAFields(StoreTime(self, DecodeNmeaTime(fields.parsed.time)),
                       fields, fields.parsed,
                       DecodeNmeaTime(fields.parsed.time))

\* NmeaDecoder.DecodeGLL: the latitude and longitude are float(data[0]) or
\* None, the decode returns a record whenever the time decodes.
DecodeGLL(self, fields) ==
  IF DecodeNmeaTime(fields.parsed.time) = None
  THEN Decoded("none", [fields EXCEPT !.decoded = None], self)
  ELSE Decoded("record",
               [fields EXCEPT !.decoded =
                  [cls |-> "dGLL", time |-> DecodeNmeaTime(fields.parsed.time)]],
               StoreTime(self, DecodeNmeaTime(fields.parsed.time)))

\* DecodeZDA after the time is decoded.  DecodeNmeaDateTime takes int() of
\* the year, month and day and "zone_hour, zone_min = map(int, parsed.zone)"
\* unpacks two integers, all outside any try statement; the dates of the
\* sentences below are dates of the calendar.
DecodeZDAFields(self, fields, parsed, time) ==
  IF /\ AllDigits(parsed.year) /\ AllDigits(parsed.month) /\ AllDigits(parsed.day)
     /\ Len(parsed.zone) = 2
     /\ AllDigits(parsed.zone[1]) /\ AllDigits(parsed.zone[2])
  THEN Decoded("record",
               [fields EXCEPT !.decoded =
                  [cls |-> "dZDA", time |-> time,
                   dtime |-> <<DecVal(parsed.year), DecVal(parsed.month),
                               DecVal(parsed.day)>>,
                   zone |-> DecVal(parsed.zone[1]) * 60 + DecVal(parsed.zone[2])]],
               self)
  ELSE Decoded("raise", fields, self)

\* NmeaDecoder.DecodeZDA
DecodeZDA(self, fields) ==
  IF DecodeNmeaTime(fields.parsed.time) = None
  THEN Decoded("none", [fields EXCEPT !.decoded = None], self)
  ELSE DecodeZDAFields(StoreTime(self, DecodeNmeaTime(fields.parsed.time)),
                       fields, fields.parsed,
                       DecodeNmeaTime(fields.parsed.time))

\* Constants.SAT_TYPE_GPS, SAT_TYPE_SBAS, SAT_TYPE_GLONASS, SIGNAL_ID_L1CA
SAT_TYPE_GPS == 0
SAT_TYPE_SBAS == 1
SAT_TYPE_GLONASS == 2
SIGNAL_ID_L1CA == 1

\* NmeaDecoder.DecodeSatNum of a number.
DecodeSatNum(num) ==
  IF num <= 32 THEN [type |-> SAT_TYPE_GPS, num |-> num]
  ELSE IF num <= 64 THEN [type |-> SAT_TYPE_SBAS, num |-> num + 87]
  ELSE [type |-> SAT_TYPE_GLONASS, num |-> num - 64]

\* NmeaDecoder._MakeGSA_VIEW
MakeGSA_VIEW(sat) ==
  [sat |-> DecVal(sat), type |-> DecodeSatNum(DecVal(sat)).type,
   num |-> DecodeSatNum(DecVal(sat)).num]

\* _MakeResiduals over a zip that gave nothing unless both lists have the
\* same length.
MakeResidualsStrict(sat_list, residuals) ==
  IF Len(sat_list) # Len(residuals) THEN <<>>
  ELSE [i \in 1..Len(sat_list) |->
          [sat |-> sat_list[i].sat, type |-> sat_list[i].type,
           num |-> sat_list[i].num, value |-> residuals[i]]]

\* NmeaDecoder._MakeResiduals over zip(sat_list, residuals): zip stops at
\* the shorter of the two.
MakeResiduals(sat_list, residuals) ==
  [i \in 1..Min(Len(sat_list), Len(residuals)) |->
     [sat |-> sat_list[i].sat, type |-> sat_list[i].type,
      num |-> sat_list[i].num, value |-> residuals[i]]]

\* A set of integers as the sorted list "sig_list.sort()" leaves.
RECURSIVE Sorted(_)
Sorted(S) ==
  IF S = {} THEN <<>>
  ELSE <<CHOOSE x \in S : \A y \in S : x <= y>>
       \o Sorted(S \ {CHOOSE x \in S : \A y \in S : x <= y})

\* dict.get(key) is not None
Has(dict, key) == key \in DOMAIN dict

DecGSA(parsed, system, sat_list, res_list) ==
  [cls |-> "dGSA", acq_mode |-> parsed.acq_mode,
   pos_mode |-> DecVal(parsed.pos_mode), sat_list |-> sat_list,
   pdop |-> DecodeInt(parsed.pdop), hdop |-> DecodeInt(parsed.hdop),
   vdop |-> DecodeInt(parsed.vdop), system |-> system,
   sig_residuals |-> res_list]

\* DecodeGSA, the loop over the sorted signals of grs_dict: the residuals
\* of each signal paired with the satellites, and whether one of the lists
\* differs in length from sat_list.
SigResiduals(sat_list, grs_dict, sig_list) ==
  [i \in 1..Len(sig_list) |->
     [signal |-> sig_list[i],
      residuals |-> MakeResiduals(sat_list, grs_dict[sig_list[i]])]]

ResidualMismatch(sat_list, grs_dict) ==
  \E signal \in DOMAIN grs_dict : Len(grs_dict[signal]) # Len(sat_list)

\* DecodeGSA from "res_list = []" on.  Neither _last_grs nor _last_gsa is
\* changed when the residuals are paired.
DecodeGSAPair(self, fields, parsed, system, sat_list) ==
  IF Has(self._last_grs, system) /\ DOMAIN self._last_grs[system] # {}
  THEN Decoded("record",
               [fields EXCEPT
                  !.decode_error =
                    IF ResidualMismatch(sat_list, self._last_grs[system])
                    THEN "Residual mismatch" ELSE @,
                  !.decoded =
                    DecGSA(parsed, system, sat_list,
                           SigResiduals(sat_list, self._last_grs[system],
                                        Sorted(DOMAIN self._last_grs[system])))],
               self)
  ELSE Decoded("record",
               [fields EXCEPT !.decoded = DecGSA(parsed, system, sat_list, <<>>)],
               [self EXCEPT !._last_gsa = (system :> sat_list) @@ @])

\* NmeaDecoder.DecodeGSA
DecodeGSA(self, fields) ==
  IF ~(/\ DecodeIntOk(fields.parsed.system) /\ AllDigits(fields.parsed.pos_mode)
       /\ DecodeIntOk(fields.parsed.pdop) /\ DecodeIntOk(fields.parsed.hdop)
       /\ DecodeIntOk(fields.parsed.vdop))
  THEN Decoded("none", [fields EXCEPT !.decode_error = "Garbled sentence",
                                      !.decoded = None], self)
  ELSE IF ~(\A i \in 1..Len(fields.parsed.sat_list) :
              AllDigits(fields.parsed.sat_list[i]))
  THEN Decoded("none", [fields EXCEPT !.decode_error = "Bad satellite data",
                                      !.decoded = None], self)
  ELSE DecodeGSAPair(self, fields, fields.parsed,
                     IntOrDefault(fields.parsed.system, SYSTEM_ID_GPS),
                     [i \in 1..Len(fields.parsed.sat_list) |->
                        MakeGSA_VIEW(fields.parsed.sat_list[i])])

\* A tuple where the program has a tuple or None.
TupleOf(s) == [cls |-> "tuple", items |-> s]

DecGRS(parsed, time, system, signal, residuals, res_list) ==
  [cls |-> "dGRS", time |-> time, mode |-> DecVal(parsed.mode),
   residuals |-> residuals, system |-> system, signal |-> signal,
   sat_residuals |-> res_list]

\* self._last_grs.setdefault(system, {})
SetDefault(last_grs, system) ==
  IF Has(last_grs, system) THEN last_grs ELSE (system :> <<>>) @@ last_grs

\* DecodeGRS from "saved = self._last_grs.setdefault(system, {})" on.
\* Neither _last_gsa nor _last_grs loses an entry when the residuals are
\* paired.
DecodeGRSPair(self, fields, parsed, time, system, signal, residuals) ==
  IF Has(self._last_gsa, system) /\ self._last_gsa[system] # <<>>
  THEN Decoded("record",
               [fields EXCEPT
                  !.decode_error =
                    IF Len(self._last_gsa[system]) # Len(residuals)
                    THEN "Residual mismatch" ELSE @,
                  !.decoded =
                    DecGRS(parsed, time, system, signal, residuals,
                           TupleOf(MakeResiduals(self._last_gsa[system], residuals)))],
               [self EXCEPT !._last_grs = SetDefault(@, system)])
  ELSE Decoded("record",
               [fields EXCEPT !.decoded =
                  DecGRS(parsed, time, system, signal, residuals, None)],
               [self EXCEPT !._last_grs =
                  (system :> ((signal :> residuals) @@ SetDefault(@, system)[system]))
                  @@ @])

\* DecodeGRS from the try statement on.
DecodeGRSFields(self, fields, parsed, time) ==
  IF /\ DecodeIntOk(parsed.system) /\ DecodeIntOk(parsed.signal)
     /\ AllDigits(parsed.mode)
     /\ \A i \in 1..Len(parsed.residuals) : AllDigits(parsed.residuals[i])
  THEN DecodeGRSPair(self, fields, parsed, time,
                     IntOrDefault(parsed.system, SYSTEM_ID_GPS),
                     IntOrDefault(parsed.signal, SIGNAL_ID_L1CA),
                     [i \in 1..Len(parsed.residuals) |-> DecVal(parsed.residuals[i])])
  ELSE Decoded("none", [fields EXCEPT !.decode_error = "Garbled sentence",
                                      !.decoded = None], self)

\* NmeaDecoder.DecodeGRS
DecodeGRS(self, fields) ==
  IF DecodeNmeaTime(fields.parsed.time) = None
  THEN Decoded("none", [fields EXCEPT !.decoded = None], self)
  ELSE DecodeGRSFields(StoreTime(self, DecodeNmeaTime(fields.parsed.time)),
                       fields, fields.parsed,
                       DecodeNmeaTime(fields.parsed.time))

\* NmeaDecoder._MakeGSV_VIEW
MakeGSV_VIEW(sat_view) ==
  [sat |-> DecVal(sat_view.sat), type |-> DecodeSatNum(DecVal(sat_view.sat)).type,
   num |-> DecodeSatNum(DecVal(sat_view.sat)).num,
   elev |-> DecodeInt(sat_view.elev), az |-> DecodeInt(sat_view.az),
   snr |-> DecodeInt(sat_view.snr)]

MakeGSV_VIEWOk(sat_view) ==
  /\ AllDigits(sat_view.sat) /\ DecodeIntOk(sat_view.elev)
  /\ DecodeIntOk(sat_view.az) /\ DecodeIntOk(sat_view.snr)

\* NmeaDecoder._DumpGSV
DumpGSV(time, system, signal, in_view, sat_views) ==
  [cls |-> "dGSV", time |-> time, system |-> system, signal |-> signal,
   in_view |-> in_view,
   tracked |-> Cardinality({i \in 1..Len(sat_views) : sat_views[i].snr # <<>>}),
   sat_views |-> sat_views]

\* DecodeGSV from "entry[1] = msg_num" on, without "del self._gsv_dict[key]".
DecodeGSVStoreKept(self, fields, key, num_msgs, msg_num, entry, gsv_time) ==
  IF msg_num # num_msgs
  THEN Decoded("none", [fields EXCEPT !.decoded = None],
               [self EXCEPT !._gsv_dict = (key :> entry) @@ @,
                            !._gsv_time = gsv_time])
  ELSE Decoded("record",
               [fields EXCEPT !.decoded =
                  DumpGSV(gsv_time, key[1], key[2], entry[3], entry[4])],
               [self EXCEPT !._gsv_dict = (key :> entry) @@ @,
                            !._gsv_time = gsv_time])

\* DecodeGSV from "entry[1] = msg_num" on, entry being the list with
\* msg_num stored and sat_views appended, gsv_time the value of _gsv_time.
\* An entry is <<num_msgs, msg_num, in_view, sat_views>>.
DecodeGSVStore(self, fields, key, num_msgs, msg_num, entry, gsv_time) ==
  IF msg_num # num_msgs
  THEN Decoded("none", [fields EXCEPT !.decoded = None],
               [self EXCEPT !._gsv_dict = (key :> entry) @@ @,
                            !._gsv_time = gsv_time])
  ELSE Decoded("record",
               [fields EXCEPT !.decoded =
                  DumpGSV(gsv_time, key[1], key[2], entry[3], entry[4])],
               [self EXCEPT !._gsv_dict = [k \in DOMAIN @ \ {key} |-> @[k]],
                            !._gsv_time = gsv_time])

\* DecodeGSV with a restart that keeps the satellites of the entry it
\* reports instead of starting from initial_entry.
DecodeGSVEntryKeep(self, fields, key, num_msgs, msg_num, in_view, sat_views, entry, gsv_time) ==
  IF num_msgs # entry[1] \/ msg_num # entry[2] + 1 \/ in_view # entry[3]
  THEN DecodeGSVStore(self,
                      [fields EXCEPT
                         !.decode_error = "Unexpected sequence",
                         !.error_data =
                           DumpGSV(gsv_time, key[1], key[2],
                                   IF entry[2] = 0 THEN 0 ELSE entry[3],
                                   entry[4])],
                      key, num_msgs, msg_num,
                      <<num_msgs, msg_num, in_view, entry[4] \o sat_views>>,
                      self.last_time)
  ELSE DecodeGSVStore(self, fields, key, num_msgs, msg_num,
                      <<entry[1], msg_num, entry[3], entry[4] \o sat_views>>,
                      gsv_time)

\* DecodeGSV from the comparison with the entry on.  On a difference the
\* item gets the message and, as error_data, what the entry held; the entry
\* starts again from initial_entry and _gsv_time from last_time.  The
\* decode_error of the program is the pair (message, error_data).
DecodeGSVEntry(self, fields, key, num_msgs, msg_num, in_view, sat_views, entry, gsv_time) ==
  IF num_msgs # entry[1] \/ msg_num # entry[2] + 1 \/ in_view # entry[3]
  THEN DecodeGSVStore(self,
                      [fields EXCEPT
                         !.decode_error = "Unexpected sequence",
                         !.error_data =
                           DumpGSV(gsv_time, key[1], key[2],
                                   IF entry[2] = 0 THEN 0 ELSE entry[3],
                                   entry[4])],
                      key, num_msgs, msg_num,
                      <<num_msgs, msg_num, in_view, sat_views>>, self.last_time)
  ELSE DecodeGSVStore(self, fields, key, num_msgs, msg_num,
                      <<entry[1], msg_num, entry[3], entry[4] \o sat_views>>,
                      gsv_time)

\* DecodeGSV that takes every message as the first of its key.
DecodeGSVKeyFresh(self, fields, key, num_msgs, msg_num, in_view, sat_views) ==
  DecodeGSVEntry(self, fields, key, num_msgs, msg_num, in_view, sat_views,
                 <<num_msgs, 0, in_view, <<>>>>, self.last_time)

\* DecodeGSV from "key = (system, signal)" on: the entry of the key, or
\* initial_entry with _gsv_time set from last_time when the key has none.
DecodeGSVKey(self, fields, key, num_msgs, msg_num, in_view, sat_views) ==
  IF Has(self._gsv_dict, key)
  THEN DecodeGSVEntry(self, fields, key, num_msgs, msg_num, in_view, sat_views,
                      self._gsv_dict[key], self._gsv_time)
  ELSE DecodeGSVEntry(self, fields, key, num_msgs, msg_num, in_view, sat_views,
                      <<num_msgs, 0, in_view, <<>>>>, self.last_time)

\* DecodeGSV that forgets the pending accumulations when it finds bad
\* parameters.
DecodeGSVParamsForget(self, fields, parsed, signal, in_view, system, num_msgs, msg_num) ==
  IF num_msgs < 1 \/ msg_num < 1 \/ in_view < 0 \/ msg_num > num_msgs
  THEN Decoded("none", [fields EXCEPT !.decode_error = "Bad parameters",
                                      !.decoded = None],
               [self EXCEPT !._gsv_dict = <<>>])
  ELSE IF ~(\A i \in 1..Len(parsed.sat_views) : MakeGSV_VIEWOk(parsed.sat_views[i]))
  THEN Decoded("none", [fields EXCEPT !.decode_error = "Bad satellite data",
                                      !.decoded = None], self)
  ELSE DecodeGSVKey(self, fields, <<system, signal>>, num_msgs, msg_num, in_view,
                    [i \in 1..Len(parsed.sat_views) |->
                       MakeGSV_VIEW(parsed.sat_views[i])])

\* DecodeGSV from the test of the parameters on.
DecodeGSVParams(self, fields, parsed, signal, in_view, system, num_msgs, msg_num) ==
  IF num_msgs < 1 \/ msg_num < 1 \/ in_view < 0 \/ msg_num > num_msgs
  THEN Decoded("none", [fields EXCEPT !.decode_error = "Bad parameters",
                                      !.decoded = None], self)
  ELSE IF ~(\A i \in 1..Len(parsed.sat_views) : MakeGSV_VIEWOk(parsed.sat_views[i]))
  THEN Decoded("none", [fields EXCEPT !.decode_error = "Bad satellite data",
                                      !.decoded = None], self)
  ELSE DecodeGSVKey(self, fields, <<system, signal>>, num_msgs, msg_num, in_view,
                    [i \in 1..Len(parsed.sat_views) |->
                       MakeGSV_VIEW(parsed.sat_views[i])])

\* NmeaDecoder.DecodeGSV
DecodeGSV(self, fields) ==
  IF /\ DecodeIntOk(fields.parsed.signal) /\ AllDigits(fields.parsed.num_sats)
     /\ AllDigits(fields.parsed.system) /\ AllDigits(fields.parsed.num_msgs)
     /\ AllDigits(fields.parsed.msg_num)
  THEN DecodeGSVParams(self, fields, fields.parsed,
                       IntOrDefault(fields.parsed.signal, SIGNAL_ID_L1CA),
                       DecVal(fields.parsed.num_sats), DecVal(fields.parsed.system),
                       DecVal(fields.parsed.num_msgs), DecVal(fields.parsed.msg_num))
  ELSE Decoded("none", [fields EXCEPT !.decode_error = "Garbled sentence",
                                      !.decoded = None], self)

\* NmeaDecoder.DECODER_DICT, for the parsers of NMEA_DICT above.
DECODER_DICT ==
  ("ParseGGA" :> "DecodeGGA") @@ ("ParseGLL" :> "DecodeGLL")
  @@ ("ParseZDA" :> "DecodeZDA") @@ ("ParseGSA" :> "DecodeGSA")
  @@ ("ParseGRS" :> "DecodeGRS") @@ ("ParseGPGSV" :> "DecodeGSV")
  @@ ("ParseGLGSV" :> "DecodeGSV")

\* parser.__mro__: ParseGPGSV and ParseGLGSV derive from ParseGSV, every
\* parser of NmeaParser from its ParseItem, that from ParseItem of
\* generic.Parser, that from Debuggable.
MRO(parser) ==
  IF parser \in {"ParseGPGSV", "ParseGLGSV"}
  THEN <<parser, "ParseGSV", "ParseItem", "generic.ParseItem", "Debuggable", "object">>
  ELSE <<parser, "ParseItem", "generic.ParseItem", "Debuggable", "object">>

\* The lookup gone wrong: the last class of the __mro__ that decoder_dict
\* has, the farthest ancestor.
GetDecoderFarthest(decoder_dict, parser) ==
  IF \E i \in 1..Len(MRO(parser)) : Has(decoder_dict, MRO(parser)[i])
  THEN decoder_dict[MRO(parser)[CHOOSE i \in 1..Len(MRO(parser)) :
                                  /\ Has(decoder_dict, MRO(parser)[i])
                                  /\ \A j \in (i + 1)..Len(MRO(parser)) :
                                       ~Has(decoder_dict, MRO(parser)[j])]]
  ELSE "None"

\* Decode up to "if decoder:": decoder_dict.get(item.parser), then the first
\* class of item.parser.__mro__ that decoder_dict has; "None" when it has
\* none of them.
GetDecoder(decoder_dict, parser) ==
  IF Has(decoder_dict, parser) THEN decoder_dict[parser]
  ELSE IF \E i \in 1..Len(MRO(parser)) : Has(decoder_dict, MRO(parser)[i])
  THEN decoder_dict[MRO(parser)[CHOOSE i \in 1..Len(MRO(parser)) :
                                  /\ Has(decoder_dict, MRO(parser)[i])
                                  /\ \A j \in 1..(i - 1) :
                                       ~Has(decoder_dict, MRO(parser)[j])]]
  ELSE "None"

\* "decoded = decoder(item)" and "item.decoded = decoded"; an exception of
\* the decode function leaves Decode.  The functions a vendor decoder adds to
\* its DECODER_DICT return a record.
CallDecoder(func, self, fields) ==
  CASE func = "DecodeGGA" -> DecodeGGA(self, fields)
    [] func = "DecodeGLL" -> DecodeGLL(self, fields)
    [] func = "DecodeZDA" -> DecodeZDA(self, fields)
    [] func = "DecodeGSA" -> DecodeGSA(self, fields)
    [] func = "DecodeGRS" -> DecodeGRS(self, fields)
    [] func = "DecodeGSV" -> DecodeGSV(self, fields)
    [] OTHER -> Decoded("record", [fields EXCEPT !.decoded = [cls |-> func]], self)

\* Decoder.Decode(item) without ignore_error: item.parser.__mro__ raises
\* AttributeError when item.parser is None; with no decode function found
\* the item is left as it is.
Decode(self, fields) ==
  IF fields.parser = "None" THEN Decoded("raise", fields, self)
  ELSE IF GetDecoder(self.decoder_dict, fields.parser) = "None"
  THEN Decoded("none", fields, self)
  ELSE CallDecoder(GetDecoder(self.decoder_dict, fields.parser), self, fields)

\* The decoder the programs build, as it is when it has decoded nothing:
\* the sentences of a stream below do not pair with each other.
NmeaDecoder == NewDecoder("none", DECODER_DICT)

\* A stage call as the log of main records it: n is the position of the
\* item in the yield order, by the function that made the call.
Call(n, op, by, ret) == [n |-> n, op |-> op, by |-> by, ret |-> ret]

\* What Formatter.Put did: the item's fields, the calls it made, the lines
\* it sent to the output list and the exception it raised, "none" if none.
PutResult(fields, calls, output, exc) ==
  [fields |-> fields, calls |-> calls, output |-> output, exc |-> exc]

\* The lines of output for the summary and the parse error: Summary returns
\* None for an ErrorItem, text for the other items.
SummaryLines(item, fields) ==
  (IF item.cls = "ErrorItem" THEN <<>> ELSE <<"summary">>)
  \o (IF fields.parse_error # "None" THEN <<"parse_error">> ELSE <<>>)

\* Put from "if item.decode_error:" on; formatter_dict has a formatter for
\* each parser of the streams.
PutDecoded(n, stop_on_error, d, calls, output) ==
  IF d.ret = "raise" THEN PutResult(d.fields, calls, output, "AttributeError")
  ELSE IF d.fields.decode_error # "None" /\ stop_on_error
  THEN PutResult(d.fields, calls, Append(output, "decode_error"), "DecodeError")
  ELSE IF d.fields.decode_error # "None"
  THEN PutResult(d.fields, calls, Append(output, "decode_error"), "none")
  ELSE IF d.ret = "none" THEN PutResult(d.fields, calls, output, "none")
  ELSE PutResult(d.fields, calls, Append(output, "decoded"), "none")

\* Put from "summary = item.Summary(full=True)" on, p the result of Parse.
PutParsed(n, item, stop_on_error, p, calls, output) ==
  IF p.ret = "raise" THEN PutResult(p.fields, calls, <<>>, "IndexError")
  ELSE IF p.fields.parse_error # "None" /\ stop_on_error
  THEN PutResult(p.fields, calls, output, "ParseError")
  ELSE IF p.fields.parsed = None THEN PutResult(p.fields, calls, output, "none")
  ELSE PutDecoded(n, stop_on_error, Decode(NmeaDecoder, p.fields),
                  Append(calls, Call(n, "Decode", "Put", Decode(NmeaDecoder, p.fields).ret)),
                  output)

\* Put from "parsed = self.PARSER.Parse(item)" on.
PutParse(n, item, stop_on_error, p) ==
  PutParsed(n, item, stop_on_error, p, <<Call(n, "Parse", "Put", p.ret)>>,
            SummaryLines(item, p.fields))

\* Formatter.Put(item), item the n-th item; the raw dump is off.
Put(n, item, fields, filter, stop_on_error) ==
  IF filter # {} /\ PARSE_CLASS(item) = "None"
  THEN PutResult(fields, <<>>, <<>>, "AttributeError")
  ELSE IF filter # {} /\ GetParser(PARSE_CLASS(item), item.msgtype) \notin filter
  THEN PutResult(fields, <<>>, <<>>, "none")
  ELSE PutParse(n, item, stop_on_error, Parse(item, fields))

-----------------------------------------------------------------------------
(* The programs: gnss_test.main and gnss_show.main iterate over GetItems    *)
(* and pass each item through the stages.  The generator runs on only when  *)
(* the loop body has finished with every item it has yielded.               *)

GRS_OK == <<DOLLAR>> \o GPGRS \o <<COMMA, 49, 49, 49, 49, 49, 49, 48, COMMA, 49, CR, LF>>
GRS_SHORT == <<DOLLAR>> \o GPGRS \o <<COMMA, 49, CR, LF>>
GRS_NOTIME == <<DOLLAR>> \o GPGRS \o <<COMMA, 49, COMMA, 49, CR, LF>>
GRS_GARBLED == <<DOLLAR>> \o GPGRS \o <<COMMA, 49, 49, 49, 49, 49, 49, 48, COMMA, 65, CR, LF>>
GLL_SHORT == <<DOLLAR>> \o GPGLL \o <<COMMA, 49, COMMA, 49, COMMA, 49, CR, LF>>

\* What the streams of the programs are made of: sentences that parse and
\* decode, parse and do not decode, do not parse, and make the parser raise;
\* a sentence of unknown type, binary frames, a comment, a stray byte, and
\* the start of a Garmin frame, at which the Garmin recognizer raises.
PipeFrames ==
  { GRS_OK, GRS_SHORT, GRS_NOTIME, GRS_GARBLED, GLL_SHORT,
    NmeaFrame(GP1, <<CR, LF>>), GarminFrame(1, <<7>>), UbloxFrame(1, 2, <<7>>),
    <<HASH, 99, LF>>, <<65>>, SubSeq(GarminFrame(1, <<>>), 1, 4) }

PipeLayouts ==
  {[junk |-> <<>>, frame |-> a, tail |-> b, fmt |-> "any", kind |-> "pipeline"] :
     a \in PipeFrames, b \in PipeFrames \cup {<<>>}}

\* The programs build combined.Extracter, which inherits from every vendor
\* Extracter; they are run here on the vendor classes whose items the
\* streams hold.
PipeExtracters == {NmeaExtracter, UbloxExtracter, GarminExtracter}

\* gnss_show --filter GRS
FilterGRS == {"ParseGRS"}

\* The programs and their command-line options.  gnss_test has none that
\* reach the formatter; gnss_show sets formatter.stop_on_error from
\* --stop-on-warnings and formatter.filter from --filter.
Programs ==
  {[NoMain EXCEPT !.prog = "gnss_test"]}
  \cup {[NoMain EXCEPT !.prog = "gnss_show", !.stop_on_errors = se,
                       !.stop_on_warnings = sw, !.filter = f] :
          se \in BOOLEAN, sw \in BOOLEAN, f \in {{}, FilterGRS}}

\* The registry when the loop starts: gnss_show calls AllowComments first.
MainExtractables(exs, prog) ==
  IF prog = "gnss_show" THEN MergeInto(exs, BindExtractersOf(exs), CommentExtracter)
  ELSE exs

InitMain ==
  \E exs \in PipeExtracters, lay \in PipeLayouts, m \in Programs :
    /\ stream = StreamOf(lay)
    /\ input = stream
    /\ layout = lay
    /\ line = <<>>
    /\ charpos = 0
    /\ linenum = 0
    /\ skipped = <<>>
    /\ extended = FALSE
    /\ extractables = MainExtractables(exs, m.prog)
    /\ extracters = BindExtractersOf(MainExtractables(exs, m.prog))
    /\ items = <<>>
    /\ pc = "new"
    /\ error = "none"
    /\ last = NoStep
    /\ nreg = IF m.prog = "gnss_show" THEN 1 ELSE 0
    /\ main = m
    /\ decoder = NoDecoder
    /\ instances = NoInstances
    /\ call = NoCall

ExtracterUnchanged ==
  UNCHANGED <<stream, input, line, charpos, linenum, skipped, extended,
              extractables, extracters, items, pc, error, last, nreg, layout,
              decoder, instances, call>>

\* The for statement asks the generator for the next item.
AtFor == main.stage = "for" /\ main.done = Len(items)

ForEnd == AtFor /\ GetItemsEnd

ForYield == AtFor /\ GetItemsYield

ForSkip == AtFor /\ GetItemsSkip

ForRaise == AtFor /\ GetItemsRaise

\* The loop body has an item to work on.
InBody(prog, stage) ==
  main.prog = prog /\ main.stage = stage /\ main.done < Len(items)

\* GotItem, "parsed = parser.Parse(item)"; an exception leaves main.
GotItemParse ==
  /\ InBody("gnss_test", "for")
  /\ \E p \in {Parse(items[main.done + 1], NewFields)} :
       main' = [main EXCEPT
         !.stage = IF p.ret = "raise" THEN "raised" ELSE "parsed",
         !.exc = IF p.ret = "raise" THEN "IndexError" ELSE "none",
         !.fields = p.fields,
         !.calls = Append(main.calls, Call(main.done + 1, "Parse", "GotItem", p.ret))]
  /\ ExtracterUnchanged

\* GotItem, "if parsed: decoded = decoder.Decode(item) else: decoded = None"
GotItemDecode ==
  /\ InBody("gnss_test", "parsed")
  /\ IF main.fields.parsed # None
     THEN \E d \in {Decode(NmeaDecoder, main.fields)} :
            main' = [main EXCEPT
              !.stage = IF d.ret = "raise" THEN "raised" ELSE "decoded",
              !.exc = IF d.ret = "raise" THEN "AttributeError" ELSE "none",
              !.fields = d.fields,
              !.calls = Append(main.calls,
                               Call(main.done + 1, "Decode", "GotItem", d.ret))]
     ELSE main' = [main EXCEPT !.stage = "decoded"]
  /\ ExtracterUnchanged

\* GotItem from the two error reports on: "formatter.Put(item)" with the
\* formatter's own decoder, then the return to main.
GotItemPut ==
  /\ InBody("gnss_test", "decoded")
  /\ \E r \in {Put(main.done + 1, items[main.done + 1], main.fields, {}, FALSE)} :
       main' = [main EXCEPT
         !.stage = IF r.exc = "none" THEN "put" ELSE "raised",
         !.exc = r.exc,
         !.fields = r.fields,
         !.calls = main.calls \o r.calls,
         !.output = r.output]
  /\ ExtracterUnchanged

\* item.Contents() of an item of any class; BaseItem.Contents returns None.
ContentsOk(item) == item.cls = "ErrorItem" \/ Contents(item).ok

\* main of gnss_test after GotItem: item.Contents(), item.Summary() and
\* item.LogText(), whose results are dropped; an exception leaves main.
MainContents ==
  /\ InBody("gnss_test", "put")
  /\ main' = [main EXCEPT
       !.stage = IF ContentsOk(items[main.done + 1]) THEN "for" ELSE "raised",
       !.exc = IF ContentsOk(items[main.done + 1]) THEN "none" ELSE "Contents",
       !.done = IF ContentsOk(items[main.done + 1]) THEN main.done + 1 ELSE main.done]
  /\ ExtracterUnchanged

\* The loop body of gnss_show: formatter.Put(item) in a try statement that
\* raises the exception again under --stop-on-errors or --stop-on-warnings,
\* then formatter.Get() and formatter.GetErrors(), which empty the lists.
ShowPut ==
  /\ InBody("gnss_show", "for")
  /\ \E r \in {Put(main.done + 1, items[main.done + 1], NewFields,
                   main.filter, main.stop_on_warnings)},
        stop \in {main.stop_on_errors \/ main.stop_on_warnings} :
       main' = [main EXCEPT
         !.stage = IF r.exc # "none" /\ stop THEN "raised" ELSE "for",
         !.exc = IF r.exc # "none" /\ stop THEN r.exc ELSE "none",
         !.done = IF r.exc # "none" /\ stop THEN main.done ELSE main.done + 1,
         !.fields = r.fields,
         !.calls = main.calls \o r.calls,
         !.output = r.output]
  /\ ExtracterUnchanged

NextMain ==
  \/ ForEnd
  \/ ForYield
  \/ ForSkip
  \/ ForRaise
  \/ GotItemParse
  \/ GotItemDecode
  \/ GotItemPut
  \/ MainContents
  \/ ShowPut

SpecMain == InitMain /\ [][NextMain]_vars

\* The steps of the loop bodies.
LoopBody ==
  GotItemParse \/ GotItemDecode \/ GotItemPut \/ MainContents \/ ShowPut

\* The programs are single-threaded and synchronous: a loop body that has an
\* item takes its next step.  The generator may wait for its source for ever.
FairMain == SpecMain /\ WF_vars(LoopBody)

-----------------------------------------------------------------------------
(* A decoder handed one sentence after another: GotItem of gnss_test       *)

\* The most sentences one decoder is handed.
MaxDecodes == 4

\* A field holding one decimal digit.
Digit(n) == <<48 + n>>

\* hhmmss.s as the digits 1111110
TIME_FIELD == <<49, 49, 49, 49, 49, 49, 48>>

\* $GPGGA,time,1,N,2,E,1,5,1,1,M,1,M,, and the same with HDOP "A".
GGA_FULL ==
  <<GPGGA, TIME_FIELD, Digit(1), <<78>>, Digit(2), <<69>>, Digit(1), Digit(5),
    Digit(1), Digit(1), <<77>>, Digit(1), <<77>>, <<>>, <<>>>>
GGA_BAD_HDOP == [GGA_FULL EXCEPT ![9] = <<65>>]

\* $GPZDA,time,1,2,2003,1,2 and the same with both zone fields empty.
ZDA_FULL ==
  <<GPZDA, TIME_FIELD, Digit(1), Digit(2), <<50, 48, 48, 51>>, Digit(1), Digit(2)>>
ZDA_NO_ZONE == [ZDA_FULL EXCEPT ![6] = <<>>, ![7] = <<>>]

\* $GPGLL,1,N,2,E,time,A
GLL_FULL == <<GPGLL, Digit(1), <<78>>, Digit(2), <<69>>, TIME_FIELD, <<65>>>>

\* $GPGSA,A,3,sats...,1,1,1 with twelve satellite fields, those of sats
\* first, and with the system field when system is not empty.
GSA(sats, system) ==
  <<GPGSA, <<65>>, Digit(3)>> \o [i \in 1..Len(sats) |-> Digit(sats[i])]
  \o [i \in 1..(12 - Len(sats)) |-> <<>>] \o <<Digit(1), Digit(1), Digit(1)>>
  \o system

\* $GPGRS,time,1,residuals...
GRS(residuals) ==
  <<GPGRS, TIME_FIELD, Digit(1)>> \o [i \in 1..Len(residuals) |-> Digit(residuals[i])]

\* $xxGSV,num_msgs,msg_num,num_sats and, for each of sats, the satellite
\* with elevation 1, azimuth 2 and SNR 3; then the signal field, if any.
GSV(msgtype, num_msgs, msg_num, num_sats, sats, signal) ==
  <<msgtype, Digit(num_msgs), Digit(msg_num), Digit(num_sats)>>
  \o Concat([i \in 1..Len(sats) |-> <<Digit(sats[i]), Digit(1), Digit(2), Digit(3)>>])
  \o signal

\* The sentence cut after each of its fields from the second on: what a
\* receiver that drops the tail of a line sends.
Prefixes(data) == {SubSeq(data, 1, n) : n \in 2..Len(data)}

\* One sentence to a fresh decoder: every sentence type, whole and cut.
SingleSentences ==
  Prefixes(GGA_FULL) \cup {GGA_BAD_HDOP} \cup Prefixes(ZDA_FULL) \cup {ZDA_NO_ZONE}
  \cup Prefixes(GLL_FULL) \cup Prefixes(GSA(<<1, 2>>, <<Digit(1)>>))
  \cup Prefixes(GRS(<<5, 6>>))
  \cup Prefixes(GSV(GPGSV, 2, 1, 8, <<1, 2, 3, 4>>, <<Digit(2)>>))
  \cup Prefixes(GSV(GLGSV, 1, 1, 1, <<1>>, <<Digit(2)>>))

\* The satellite list and the residuals of one fix: two satellites or none,
\* two residuals or one.
ResidualSentences ==
  {GSA(<<1, 2>>, <<>>), GSA(<<>>, <<>>), GRS(<<5, 6>>), GRS(<<5>>)}

\* Satellites in view.  GPS without signal field: three messages for nine
\* satellites, the second of them also as 2 of 4, and two messages for five
\* satellites.  GPS with signal 2: two messages for five satellites.
\* GLONASS: one message.  And a sentence that carries the time.
ViewSentences ==
  { GSV(GPGSV, 3, 1, 9, <<1, 2, 3, 4>>, <<>>), GSV(GPGSV, 3, 2, 9, <<5, 6, 7, 8>>, <<>>),
    GSV(GPGSV, 3, 3, 9, <<9>>, <<>>), GSV(GPGSV, 4, 2, 9, <<5, 6, 7, 8>>, <<>>),
    GSV(GPGSV, 2, 1, 5, <<1, 2, 3, 4>>, <<>>), GSV(GPGSV, 2, 2, 5, <<5>>, <<>>),
    GSV(GPGSV, 2, 1, 5, <<1, 2, 3, 4>>, <<Digit(2)>>),
    GSV(GPGSV, 2, 2, 5, <<5>>, <<Digit(2)>>),
    GSV(GLGSV, 1, 1, 1, <<1>>, <<>>), GRS(<<5>>) }

\* Satellites in view with sentences DecodeGSV rejects: two messages for
\* five satellites, the sentence that carries the time, and the second
\* message with a letter as message number and with a letter as elevation,
\* a message 3 of 2 of full length, and a message 0 of 0.
RejectSentences ==
  { GSV(GPGSV, 2, 1, 5, <<1, 2, 3, 4>>, <<>>), GSV(GPGSV, 2, 2, 5, <<5>>, <<>>),
    GRS(<<5>>),
    [GSV(GPGSV, 2, 2, 5, <<5>>, <<>>) EXCEPT ![3] = <<65>>],
    [GSV(GPGSV, 2, 2, 5, <<5>>, <<>>) EXCEPT ![6] = <<65>>],
    GSV(GPGSV, 2, 3, 8, <<5, 6, 7, 8>>, <<>>), GSV(GPGSV, 0, 0, 5, <<5>>, <<>>) }

\* The DECODER_DICT of a vendor decoder that registers a decode function for
\* the classes in classes, as hemisphere.NmeaDecoder does for its parsers.
VendorDict(classes) == [c \in classes |-> "Decode" \o c]

\* The decoders one sentence is handed to: generic.Decoder, whose dict is
\* empty, NmeaDecoder, and vendor decoders for ParseGSV or its ancestors in
\* place of those of ParseGPGSV and ParseGLGSV.
DecoderDicts ==
  {<<>>, DECODER_DICT}
  \cup {VendorDict(classes) @@ [c \in DOMAIN DECODER_DICT \ {"ParseGPGSV", "ParseGLGSV"}
                                  |-> DECODER_DICT[c]] :
          classes \in {{"ParseGSV"}, {"ParseItem"}, {"ParseGSV", "ParseItem"},
                       {"ParseGPGSV", "ParseGSV", "generic.ParseItem"}}}

\* What a decoder is handed: the sentences, how many of them at most, and
\* the decoder_dict it has.
Sessions ==
  {[session |-> "single", decoder_dict |-> dd] : dd \in DecoderDicts}
  \cup {[session |-> "residuals", decoder_dict |-> DECODER_DICT],
        [session |-> "views", decoder_dict |-> DECODER_DICT],
        [session |-> "rejects", decoder_dict |-> DECODER_DICT]}

Sentences(session) ==
  CASE session = "single" -> SingleSentences
    [] session = "residuals" -> ResidualSentences
    [] session = "views" -> ViewSentences
    [] session = "rejects" -> RejectSentences
    [] OTHER -> {}

SessionLength(session) == IF session = "single" THEN 1 ELSE MaxDecodes

\* The item Sentence.Extract makes of the fields of a line.
SentenceItem(data) == MakeItem("Sentence", data, 0, data[1], <<>>, FALSE)

\* An entry of the log: the fields of the sentence, what Parse and Decode
\* returned ("skip" where Decode was not called), the decode function
\* Decode found, and the item's fields after the calls.
LogEntry(data, parse, decode, func, fields) ==
  [data |-> data, parse |-> parse, decode |-> decode, func |-> func,
   fields |-> fields]

\* GotItem from "if parsed:" on, p being what parser.Parse(item) did.
GotItemParsed(self, item, p) ==
  IF p.ret = "record"
  THEN [Decode(self, p.fields).self EXCEPT
          !.log = Append(@, LogEntry(item.data, p.ret, Decode(self, p.fields).ret,
                                     GetDecoder(self.decoder_dict, p.fields.parser),
                                     Decode(self, p.fields).fields))]
  ELSE [self EXCEPT !.log = Append(@, LogEntry(item.data, p.ret, "skip", "None",
                                               p.fields))]

\* GotItem(item, ...) of gnss_test with decoder self, up to formatter.Put.
GotItem(self, item) == GotItemParsed(self, item, Parse(item, NewFields))

\* An exception has left GotItem, and the program with it.
Left(self) ==
  /\ self.log # <<>>
  /\ \/ self.log[Len(self.log)].parse = "raise"
     \/ self.log[Len(self.log)].decode = "raise"

InitDec ==
  \E ses \in Sessions :
    /\ stream = <<>>
    /\ input = <<>>
    /\ layout = [junk |-> <<>>, frame |-> <<>>, tail |-> <<>>, fmt |-> "none",
                 kind |-> "empty"]
    /\ line = <<>>
    /\ charpos = 0
    /\ linenum = 0
    /\ skipped = <<>>
    /\ extended = FALSE
    /\ extractables = NmeaExtracter
    /\ extracters = BindExtractersOf(NmeaExtracter)
    /\ items = <<>>
    /\ pc = "new"
    /\ error = "none"
    /\ last = NoStep
    /\ nreg = 0
    /\ main = NoMain
    /\ decoder = NewDecoder(ses.session, ses.decoder_dict)
    /\ instances = NoInstances
    /\ call = NoCall

\* The next sentence of the session goes through GotItem.
GotSentence ==
  /\ Len(decoder.log) < SessionLength(decoder.session)
  /\ ~Left(decoder)
  /\ \E data \in Sentences(decoder.session) :
       \E r \in {GotItem(decoder, SentenceItem(data))} : decoder' = r
  /\ UNCHANGED <<stream, input, line, charpos, linenum, skipped, extended,
                 extractables, extracters, items, pc, error, last, nreg, layout,
                 main, instances, call>>

NextDec == GotSentence

SpecDec == InitDec /\ [][NextDec]_vars

-----------------------------------------------------------------------------
(* Two decoders, each handed the items of its own stream, in any            *)
(* interleaving                                                             *)

MaxInterleaved == 4

\* The sentences of either stream: a satellite list, its residuals, and the
\* two messages of five satellites in view.
StreamSentences ==
  {GSA(<<1, 2>>, <<>>), GRS(<<5, 6>>),
   GSV(GPGSV, 2, 1, 5, <<1, 2, 3, 4>>, <<>>), GSV(GPGSV, 2, 2, 5, <<5>>, <<>>)}

\* n instances whose dicts and times are attributes of the class: one
\* object holds them for all.
ConstructShared(n) ==
  [objs |-> [i \in 1..n |-> NewDecoder("two", DECODER_DICT)],
   at |-> [i \in 1..n |-> 1],
   logs |-> [i \in 1..n |-> <<>>]]

\* n instances after Decoder.__init__ and NmeaDecoder.__init__: both assign
\* every attribute on self, the dicts being new ones, so each instance has
\* an object of its own.  objs are the objects, at[i] the object that holds
\* the attributes of instance i, logs[i] what GotItem did with its items.
\* DECODER_DICT is a class attribute; no decode function assigns to it.
Construct(n) ==
  [objs |-> [i \in 1..n |-> NewDecoder("two", DECODER_DICT)],
   at |-> [i \in 1..n |-> i],
   logs |-> [i \in 1..n |-> <<>>]]

\* The item data goes through GotItem with instance i: the attributes are
\* those of the object of i, the results go to the log of i.
ItemTo(ins, i, r) ==
  [ins EXCEPT !.objs[ins.at[i]] = [r EXCEPT !.log = <<>>], !.logs[i] = r.log]

Handed(ins) == Len(ins.logs[1]) + Len(ins.logs[2])

InitTwo ==
  /\ stream = <<>>
  /\ input = <<>>
  /\ layout = [junk |-> <<>>, frame |-> <<>>, tail |-> <<>>, fmt |-> "none",
               kind |-> "empty"]
  /\ line = <<>>
  /\ charpos = 0
  /\ linenum = 0
  /\ skipped = <<>>
  /\ extended = FALSE
  /\ extractables = NmeaExtracter
  /\ extracters = BindExtractersOf(NmeaExtracter)
  /\ items = <<>>
  /\ pc = "new"
  /\ error = "none"
  /\ last = NoStep
  /\ nreg = 0
  /\ main = NoMain
  /\ decoder = NoDecoder
  /\ instances = Construct(2)
  /\ call = NoCall

\* One of the two decoders is handed the next item of its stream.
DecodeItem ==
  /\ Handed(instances) < MaxInterleaved
  /\ \E i \in 1..2, data \in StreamSentences :
       \E r \in {GotItem([instances.objs[instances.at[i]]
                            EXCEPT !.log = instances.logs[i]],
                          SentenceItem(data))} :
         instances' = ItemTo(instances, i, r)
  /\ UNCHANGED <<stream, input, line, charpos, linenum, skipped, extended,
                 extractables, extracters, items, pc, error, last, nreg, layout,
                 main, decoder, call>>

NextTwo == DecodeItem

SpecTwo == InitTwo /\ [][NextTwo]_vars

-----------------------------------------------------------------------------
(* Properties                                                               *)

\* GetItems has returned or an exception has left it.
Terminated == pc \in {"done", "raised"}

\* The recognizer of format fmt is bound.
Registered(fmt) == \E i \in 1..Len(extracters) : extracters[i] = fmt

\* The byte spans of the yielded items, in yield order.
Spans(its) == [i \in 1..Len(its) |-> its[i].span]

\* The latest iteration dispatched at the first byte of the well-formed frame
\* of the stream, and the frame's recognizer is bound.
AtFrame ==
  /\ layout.kind = "frame"
  /\ Registered(layout.fmt)
  /\ last.kind \in {"item", "skip", "raise"}
  /\ last.pos = Len(layout.junk)

\* The latest iteration yielded the item of the stream's well-formed frame.
FrameYielded ==
  /\ AtFrame
  /\ last.kind = "item"
  /\ items[Len(items)].cls = layout.fmt

\* The stream is a frame cut off before its end: for a text format the cut
\* leaves no end-of-line marker (a CR alone ends a line).
CutOff ==
  /\ layout.kind = "truncated"
  /\ Registered(layout.fmt)
  /\ layout.fmt \in {"Sentence", "Comment", "Response"} => EndLen(layout.frame) = 0

\* C1: once GetItems has ended, the spans of the yielded items, concatenated
\* in yield order, are the input stream: no byte lost, duplicated or reordered.
C1_BytesConserved == Terminated => Concat(Spans(items)) = stream

\* C2: N >= 1 unmatched bytes, one well-formed frame, end of input: GetItems
\* yields exactly an error-span item holding the N bytes, then the frame's item.
C2_JunkThenFrame ==
  (/\ Terminated
   /\ layout.kind = "frame"
   /\ Registered(layout.fmt)
   /\ layout.junk # <<>>
   /\ layout.tail = <<>>)
  => /\ Len(items) = 2
     /\ items[1].cls = "ErrorItem"
     /\ items[1].data = layout.junk
     /\ items[2].cls = layout.fmt

\* C3: no recognizer raises, and a recognizer that returns an item returns a
\* consumed count n with 1 <= n <= length of the buffer.
C3_ExtractTotal ==
  /\ last.kind # "raise"
  /\ last.kind = "item" => (1 <= last.consumed /\ last.consumed <= Len(last.buf))

\* C4: a frame cut off before its end, then end of input: GetItems yields
\* exactly one item, an error-span item whose data is all the bytes.
C4_TruncatedFrame ==
  (Terminated /\ CutOff)
  => /\ Len(items) = 1
     /\ items[1].cls = "ErrorItem"
     /\ items[1].data = stream

\* C5: dispatched at the first byte of a well-formed frame that the source
\* holds whole, the recognizers do not all return none: the frame's recognizer
\* reads on until the frame is complete.
C5_ReadsUntilComplete == AtFrame => last.kind # "skip"

\* C6: Contents() of the item extracted from a well-formed frame is the frame,
\* byte for byte.
C6_RoundTrip ==
  FrameYielded
  => Contents(items[Len(items)]) = [ok |-> TRUE, bytes |-> layout.frame]

\* The reader the recognizers of an iteration start from.
IterationReader == TopOf(Reader(line, input, extended, linenum)).rd

\* What C7 says of one iteration that ends with a yield or a skip: the
\* recognizers called are the first k of the bound list, none of those before
\* the k-th matches the buffer; a yielded item is the k-th recognizer's; on a
\* skip all were called, and exactly the byte at the current offset moves to
\* skipped while charpos advances by one.
C7_Iteration ==
  pc' = "run" =>
    /\ Len(last'.tried) \in 1..Len(extracters)
    /\ last'.tried = SubSeq(extracters, 1, Len(last'.tried))
    /\ \A j \in 1..(Len(last'.tried) - 1) :
         Extract(extracters[j], IterationReader).kind = "none"
    /\ last'.kind = "item" =>
         /\ items'[Len(items')].cls = extracters[Len(last'.tried)]
         /\ Extract(extracters[Len(last'.tried)], IterationReader).kind = "item"
    /\ last'.kind = "skip" =>
         /\ Len(last'.tried) = Len(extracters)
         /\ Extract(extracters[Len(extracters)], IterationReader).kind = "none"
         /\ skipped' = Append(skipped, stream[charpos + 1])
         /\ line' = Tail(last'.buf)
         /\ charpos' = charpos + 1
         /\ items' = items

\* C7: in every iteration of GetItems the recognizers are tried in bound
\* order and the first match wins; with no match exactly one byte is skipped
\* and the offset advances by one.
C7_FirstMatchOrSkipOne == [][C7_Iteration]_vars

\* Two bytes were skipped, then the second recognizer of the bound list won.
C7_Witness ==
  /\ last.kind = "item"
  /\ Len(last.tried) = 2
  /\ Len(items) = 2
  /\ Len(items[1].data) = 2

\* C8: the consumed count of the item of a well-formed frame is the length of
\* the frame from its sync marker through its trailer, and what is left to
\* extract after it is exactly what follows the frame in the stream.
C8_ConsumedIsFrame ==
  FrameYielded
  => /\ last.consumed = Len(layout.frame)
     /\ charpos = Len(layout.junk) + Len(layout.frame)
     /\ line \o input = layout.tail

\* A Garmin frame with a stuffed DLE in its body was yielded, bytes follow it.
C8_Witness ==
  /\ FrameYielded
  /\ layout.frame = GarminFrame(1, <<DLE>>)
  /\ layout.tail # <<>>

\* The stream offset of the first byte of the i-th yielded item.
OffsetOf(i) == Len(Concat(Spans(SubSeq(items, 1, i - 1))))

\* C9: every yielded item's charpos is the stream offset of its first byte.
C9_CharposIsStart == \A i \in 1..Len(items) : items[i].charpos = OffsetOf(i)

\* A class occurs at most once in the sequence of classes.
NoDuplicates(classes) ==
  \A i, j \in 1..Len(classes) : classes[i] = classes[j] => i = j

\* C10: after any sequence of registry calls each class is registered at most
\* once and bound at most once.
C10_NoDuplicateClass ==
  /\ NoDuplicates([i \in 1..Len(extractables) |-> extractables[i][1]])
  /\ NoDuplicates(extracters)

\* Class cls has an entry in the registry exs.
HasEntry(exs, cls) == \E i \in 1..Len(exs) : exs[i][1] = cls

\* The step is a call of AddExtracter: of the registry calls it alone counts
\* as a call and leaves the bound list as it was.
IsAddExtracter == nreg' = nreg + 1 /\ extracters' = extracters

\* What C11 says of one call AddExtracter(cls, prio): the new entry is the
\* last one, and no ancestor of cls that was registered is registered still.
C11_Step ==
  (IsAddExtracter /\ extractables' # <<>>)
  => \A anc \in ItemClasses :
       (/\ IsSubclass(extractables'[Len(extractables')][1], anc)
        /\ HasEntry(extractables, anc))
       => ~HasEntry(extractables', anc)

\* C11: AddExtracter of a class that descends from a registered class
\* replaces the ancestor's entry: the ancestor is no longer registered.
C11_DescendantReplaces == [][C11_Step]_vars

\* The classes of a sequence of registry entries.
ClassesOf(exs) == [i \in 1..Len(exs) |-> exs[i][1]]

\* The entries of exs whose priority is in ps: those of the highest priority
\* first, those of one priority in the order they have in exs.
RECURSIVE ByPriority(_, _)
ByPriority(exs, ps) ==
  IF ps = {} THEN <<>>
  ELSE LET top == CHOOSE p \in ps : \A q \in ps : q <= p
       IN SelectSeq(exs, LAMBDA e : e[2] = top) \o ByPriority(exs, ps \ {top})

\* The priorities that occur in exs.
PrioritiesOf(exs) == {exs[i][2] : i \in 1..Len(exs)}

RECURSIVE Reverse(_)
Reverse(s) == IF s = <<>> THEN <<>> ELSE Append(Reverse(Tail(s)), Head(s))

\* Every registration has been bound: the state after construction, after
\* BindExtracters and after MergeExtracters (AddExtracter alone leaves the
\* new entry unbound).
AllBound == Len(extracters) = Len(extractables)

DerivedExtracter == NewExtractables(<<<<"DerivedSentence", 0>>>>)

Mergeable == ExtracterClasses \cup {CommentExtracter, DerivedExtracter}

\* An entry of registry a is of a class that descends from the class of an
\* entry of registry b.
Overrides(a, b) ==
  \E i \in 1..Len(a), j \in 1..Len(b) : IsSubclass(a[i][1], b[j][1])

\* The bound list after MergeExtracters(first); MergeExtracters(second) on
\* the current registry.
MergedTable(first, second) ==
  BindExtractersOf(MergeInto(MergeInto(extractables, extracters, first),
                             extracters, second))

\* C13: merging A then B gives the bound list that merging B then A gives
\* when neither overrides an entry of the other; and when an entry of A is
\* of a class that descends from the class of an entry of B, either order
\* leaves A's class bound and B's ancestor class not.
C13_MergeCommutes ==
  \A a, b \in Mergeable :
    /\ (~Overrides(a, b) /\ ~Overrides(b, a))
       => MergedTable(a, b) = MergedTable(b, a)
    /\ \A i \in 1..Len(a), j \in 1..Len(b) :
         IsSubclass(a[i][1], b[j][1])
         => \A t \in {MergedTable(a, b), MergedTable(b, a)} :
              /\ \E k \in 1..Len(t) : t[k] = a[i][1]
              /\ \A k \in 1..Len(t) : t[k] # b[j][1]

\* The 0-based offsets of the CR and LF bytes of ln.
EOLOffsets(ln) == {i \in 0..(Len(ln) - 1) : ln[i + 1] \in {CR, LF}}

\* The length of the end-of-line marker of ln at 0-based offset ofs: CR LF
\* is one marker of two bytes, a CR or an LF alone a marker of one.
MarkerLen(ln, ofs) ==
  IF ln[ofs + 1] = CR /\ ofs + 2 <= Len(ln) /\ ln[ofs + 2] = LF THEN 2 ELSE 1

\* The first end-of-line marker of ln: its offset and length, and the whole
\* length with a marker length of 0 when ln holds no marker.
FirstEOL(ln) ==
  IF EOLOffsets(ln) = {} THEN [length |-> Len(ln), endlen |-> 0]
  ELSE [length |-> Least(EOLOffsets(ln)),
        endlen |-> MarkerLen(ln, Least(EOLOffsets(ln)))]

\* The next iteration calls Sentence.Extract first, on a buffer that starts
\* with "$": Extract calls GetEOL on the buffer of IterationReader.
SentenceCallsGetEOL ==
  /\ Running
  /\ extracters[1] = "Sentence"
  /\ StartsWith(IterationReader.line, <<DOLLAR>>)

\* C14: GetEOL returns the offset and the length of the first end-of-line
\* marker of the buffer, be it CR LF, an LF alone or a CR alone, also when
\* bytes follow the marker in the buffer.
C14_FirstEOL ==
  SentenceCallsGetEOL
  => /\ GetEOL(IterationReader).length = FirstEOL(IterationReader.line).length
     /\ GetEOL(IterationReader).endlen = FirstEOL(IterationReader.line).endlen

\* The latest iteration dispatched at the first byte of a stream that is one
\* frame with right or wrong integrity bytes, and its recognizer is bound.
AtChecked ==
  /\ layout.kind = "checked"
  /\ Registered(layout.fmt)
  /\ last.kind \in {"item", "skip", "raise"}
  /\ last.pos = 0

\* The latest iteration yielded an item of the class of the stream's frame.
Yielded == last.kind = "item" /\ items[Len(items)].cls = layout.fmt

\* The stream starts with a sentence that ends in CR LF or LF and has no "*".
AtUnchecked ==
  /\ AtFrame
  /\ layout.fmt = "Sentence"
  /\ layout.junk = <<>>
  /\ EndsWith(layout.frame, <<LF>>)
  /\ \A i \in 1..Len(layout.frame) : layout.frame[i] # STAR

\* C15: a sentence that ends in "*" and two characters is accepted if and
\* only if the two characters are the hex digits of the XOR of the bytes
\* between "$" and "*"; a sentence with no "*" is accepted unverified.
C15_ChecksumGate ==
  /\ (AtChecked /\ layout.fmt = "Sentence") => (Yielded <=> layout.valid)
  /\ AtUnchecked => Yielded

\* C16: the Hemisphere recognizer accepts a frame if and only if the 16-bit
\* checksum of its trailer is the sum of the body bytes modulo 2^16, also for
\* a body whose byte sum is 65536 or more.
C16_SumMod65536 ==
  (AtChecked /\ layout.fmt = "Hemisphere") => (Yielded <=> layout.valid)

\* The item the latest iteration yielded is a Garmin message of the whole
\* stream with the doubled DLEs removed: it has type msgtype and body body.
YieldedGarmin(msgtype, body) ==
  /\ Yielded
  /\ last.consumed = Len(layout.frame)
  /\ items[Len(items)].msgtype = msgtype
  /\ items[Len(items)].data = body

\* C17: a Garmin frame is accepted if and only if every DLE in its type,
\* length, body and checksum is followed by a second DLE, and the DLEs of
\* an accepted frame are undoubled in the item.
C17_DleDoubled ==
  (AtChecked /\ layout.fmt = "Garmin")
  => /\ Yielded <=> layout.valid
     /\ \A t \in {1, DLE, STUFFED_CKS_TYPE}, b \in {<<>>, <<DLE>>, DleLenBody} :
          layout.frame = GarminStuffedFrame(t, b) => YieldedGarmin(t, b)

\* C18: an Oncore frame ends at the first CR LF at or after ONCORE_MIN_END;
\* a CR LF before that offset does not end it and does not keep the
\* recognizer from finding the later one.
C18_FirstEndAfterMin ==
  (AtChecked /\ layout.fmt = "Oncore")
  => /\ Yielded <=> layout.valid
     /\ Yielded => last.consumed = Len(layout.frame)

\* C19: dispatched at the first byte of a well-formed Hemisphere frame, the
\* Hemisphere recognizer matches it whatever the buffer holds after the
\* frame, bytes read ahead for an earlier candidate included.
C19_MatchedWhateverFollows ==
  (AtFrame /\ layout.fmt = "Hemisphere")
  => /\ FrameYielded
     /\ last.consumed = Len(layout.frame)

\* The positions an item can have in the yield order of the programs' streams.
PipeItems == 1..4

\* A stage call of the log: the call at position i.
ParseReturned(n, by, ret) ==
  \E i \in 1..Len(main.calls) : main.calls[i] = Call(n, "Parse", by, ret)

DecodeCalled(n) ==
  \E i \in 1..Len(main.calls) : main.calls[i].n = n /\ main.calls[i].op = "Decode"

\* Every Decode call comes right after the Parse call of the same caller on
\* the same item, and that Parse call returned a record.
DecodeAfterParse ==
  \A i \in 1..Len(main.calls) :
    main.calls[i].op = "Decode" =>
      /\ i > 1
      /\ main.calls[i - 1] = Call(main.calls[i].n, "Parse", main.calls[i].by, "record")

\* An item whose Parse returned none is never passed to Decode.
NoneNeverDecoded ==
  \A n \in PipeItems :
    (ParseReturned(n, "GotItem", "none") \/ ParseReturned(n, "Put", "none"))
      => ~DecodeCalled(n)

\* The loop body is at an item whose Parse returned none; once the body has
\* finished with the item, main.done counts it and this no longer holds.
AtUnparsed ==
  \/ ParseReturned(main.done + 1, "GotItem", "none")
  \/ ParseReturned(main.done + 1, "Put", "none")

PARSED_FIELDS(parser) ==
  CASE parser = "ParseGGA" ->
         {"time", "lats", "lons", "qual", "num_sats", "hdop", "alts", "geoids",
          "age", "refid"}
    [] parser = "ParseGLL" -> {"lats", "lons", "time", "status"}
    [] parser = "ParseZDA" -> {"time", "day", "month", "year", "zone"}
    [] parser = "ParseGSA" ->
         {"acq_mode", "pos_mode", "sat_list", "pdop", "hdop", "vdop", "system"}
    [] parser = "ParseGRS" -> {"time", "mode", "residuals", "system", "signal"}
    [] OTHER -> {"num_msgs", "msg_num", "num_sats", "sat_views", "signal", "system"}

\* The entries of the log whose sentence has a parser.
Recognized == {i \in 1..Len(decoder.log) : decoder.log[i].fields.parser # "None"}

ParsedToSchema(e) ==
  /\ e.parse = "record"
  /\ DOMAIN e.fields.parsed = PARSED_FIELDS(e.fields.parser) \cup {"cls"}

ReportedTruncated(e) ==
  e.parse = "none" /\ e.fields.parse_error = "Truncated sentence"

\* C21: for a sentence of a known type with two fields or more, Parse
\* either returns a record with exactly the fields of the schema or returns
\* None with parse_error set to the truncation message; it never raises.
C21_ParseRecordOrTruncated ==
  \A i \in Recognized :
    ParsedToSchema(decoder.log[i]) \/ ReportedTruncated(decoder.log[i])

\* The entries of the log whose sentence Parse made a record of.
Parsed == {i \in 1..Len(decoder.log) : decoder.log[i].parse = "record"}

\* C22: for a parsed item, Decode without ignore_error returns a result or
\* returns None; no exception of a decode function leaves Decode.
C22_DecodeNeverRaises ==
  \A i \in Parsed : decoder.log[i].decode \in {"record", "none"}

\* The places in parser.__mro__ of the classes decoder_dict has an entry for.
RegisteredAt(parser) ==
  {i \in 1..Len(MRO(parser)) : Has(decoder.decoder_dict, MRO(parser)[i])}

\* The entry e went to the decode function of the first registered class of
\* the __mro__, the parser itself being its first class.
WentToNearest(e) ==
  \E i \in RegisteredAt(e.fields.parser) :
    /\ \A j \in RegisteredAt(e.fields.parser) : i <= j
    /\ e.func = decoder.decoder_dict[MRO(e.fields.parser)[i]]
    /\ e.func \notin {DECODER_DICT[c] : c \in DOMAIN DECODER_DICT}
         => e.decode = "record" /\ e.fields.decoded = [cls |-> e.func]

\* The entry e went to no decode function: Decode returned None and the
\* item's decoded and decode_error are as Parse left them.
WentNowhere(e) ==
  /\ e.func = "None"
  /\ e.decode = "none"
  /\ e.fields.decoded = NewFields.decoded
  /\ e.fields.decode_error = NewFields.decode_error

\* C23: Decode calls the decode function registered for the item's parser
\* class; without one, that of the nearest ancestor in __mro__ order that
\* has one; with none registered it returns None and leaves item.decoded.
C23_NearestRegistered ==
  \A i \in Parsed :
    IF RegisteredAt(decoder.log[i].fields.parser) = {}
    THEN WentNowhere(decoder.log[i])
    ELSE WentToNearest(decoder.log[i])

\* A ParseGPGSV item decoded by the function registered for ParseGSV, the
\* decoder having one for ParseItem too and none for ParseGPGSV.
C23_Witness ==
  /\ decoder.log # <<>>
  /\ decoder.log[1].fields.parser = "ParseGPGSV"
  /\ decoder.log[1].parse = "record"
  /\ DOMAIN decoder.decoder_dict \cap {"ParseGPGSV", "ParseGSV", "ParseItem"}
       = {"ParseGSV", "ParseItem"}
  /\ decoder.log[1].func = decoder.decoder_dict["ParseGSV"]
  /\ decoder.log[1].fields.decoded = [cls |-> decoder.decoder_dict["ParseGSV"]]

\* The entry e is a sentence that performed a pairing: a GSA decoded with
\* the residuals cached for its system, or a GRS decoded with the satellite
\* list cached for its system.
Pairing(e) ==
  /\ e.decode = "record"
  /\ \/ e.fields.decoded.cls = "dGSA" /\ e.fields.decoded.sig_residuals # <<>>
     \/ e.fields.decoded.cls = "dGRS" /\ e.fields.decoded.sat_residuals # None

\* The decoder self holds neither satellites nor residuals for the system.
NothingCached(self, system) ==
  /\ Has(self._last_gsa, system) => self._last_gsa[system] = <<>>
  /\ Has(self._last_grs, system) => DOMAIN self._last_grs[system] = {}

\* C24: the sentence that arrives second performs the pairing and clears
\* both caches of its system: right after a pairing the decoder holds
\* neither a satellite list nor residuals for that system.
C24_PairingClearsCaches ==
  (decoder.log # <<>> /\ Pairing(decoder.log[Len(decoder.log)]))
    => NothingCached(decoder, decoder.log[Len(decoder.log)].fields.decoded.system)

\* What GotItem logged last.
LastEntry(self) == self.log[Len(self.log)]

\* The (satellite, residual value) pairs of the signal that the decoded
\* entry e carries: those of sat_residuals for a GRS, those of the signal's
\* entry of sig_residuals for a GSA, none where there is no such result.
PairsOfResiduals(residuals) ==
  [i \in 1..Len(residuals) |-> <<residuals[i].sat, residuals[i].value>>]

PairsOf(e, signal) ==
  IF e.decode # "record" THEN <<>>
  ELSE IF e.fields.decoded.cls = "dGRS"
  THEN IF e.fields.decoded.sat_residuals = None \/ e.fields.decoded.signal # signal
       THEN <<>>
       ELSE PairsOfResiduals(e.fields.decoded.sat_residuals.items)
  ELSE IF \E i \in 1..Len(e.fields.decoded.sig_residuals) :
            e.fields.decoded.sig_residuals[i].signal = signal
  THEN PairsOfResiduals(
         e.fields.decoded.sig_residuals[
           CHOOSE i \in 1..Len(e.fields.decoded.sig_residuals) :
             e.fields.decoded.sig_residuals[i].signal = signal].residuals)
  ELSE <<>>

\* The second-decoded entry when self is handed first, then second.
SecondOf(self, first, second) ==
  LastEntry(GotItem(GotItem(self, SentenceItem(first)), SentenceItem(second)))

\* C25: a GRS decoded before its GSA and the same two sentences in the
\* reverse order leave the same (satellite, residual value) pairs on the
\* sentence decoded second, in a new decoder and in one whose last sentence
\* completed a pairing.
C25_OrderIndependent ==
  (/\ decoder.session = "residuals"
   /\ decoder.log # <<>> => Pairing(LastEntry(decoder))) =>
    \A gsa \in {s \in ResidualSentences : s[1] = GPGSA} :
      \A grs \in {s \in ResidualSentences : s[1] = GPGRS} :
        PairsOf(SecondOf(decoder, gsa, grs), SIGNAL_ID_L1CA)
          = PairsOf(SecondOf(decoder, grs, gsa), SIGNAL_ID_L1CA)

\* The residuals res are the first min(#sats, #values) pairs of the
\* satellites sat_list and the values.
BestEffortPairs(res, sat_list, values) ==
  /\ Len(res) = Min(Len(sat_list), Len(values))
  /\ \A i \in 1..Len(res) :
       res[i].sat = sat_list[i].sat /\ res[i].value = values[i]

\* The entry e is a GRS that DecodeGRS paired with the satellite list
\* sat_list, cached and of another length than its residuals.
GRSMismatched(e, last_gsa) ==
  /\ e.func = "DecodeGRS" /\ e.decode = "record"
  /\ Has(last_gsa, e.fields.decoded.system)
  /\ last_gsa[e.fields.decoded.system] # <<>>
  /\ Len(last_gsa[e.fields.decoded.system]) # Len(e.fields.decoded.residuals)

\* The entry e is a GSA that DecodeGSA paired with the cached residuals
\* last_grs of its system, those of some signal being of another length
\* than its satellite list.
GSAMismatched(e, last_grs) ==
  /\ e.func = "DecodeGSA" /\ e.decode = "record"
  /\ Has(last_grs, e.fields.decoded.system)
  /\ \E signal \in DOMAIN last_grs[e.fields.decoded.system] :
       Len(last_grs[e.fields.decoded.system][signal])
         # Len(e.fields.decoded.sat_list)

\* The entry e reports the mismatch and has a decoded result.
MismatchReported(e) ==
  /\ e.fields.decode_error = "Residual mismatch"
  /\ e.decode = "record"
  /\ e.fields.decoded # None

GRSBestEffort(e, sat_list) ==
  /\ MismatchReported(e)
  /\ e.fields.decoded.sat_residuals # None
  /\ BestEffortPairs(e.fields.decoded.sat_residuals.items, sat_list,
                     e.fields.decoded.residuals)

GSABestEffort(e, grs_dict) ==
  /\ MismatchReported(e)
  /\ {e.fields.decoded.sig_residuals[i].signal :
        i \in 1..Len(e.fields.decoded.sig_residuals)} = DOMAIN grs_dict
  /\ \A i \in 1..Len(e.fields.decoded.sig_residuals) :
       BestEffortPairs(e.fields.decoded.sig_residuals[i].residuals,
                       e.fields.decoded.sat_list,
                       grs_dict[e.fields.decoded.sig_residuals[i].signal])

C26_Step(self, e) ==
  /\ GRSMismatched(e, self._last_gsa)
       => GRSBestEffort(e, self._last_gsa[e.fields.decoded.system])
  /\ GSAMismatched(e, self._last_grs)
       => GSABestEffort(e, self._last_grs[e.fields.decoded.system])

\* C26: a GSA or GRS that is paired with a cached list of another length
\* gets the decode_error of the mismatch and still a decoded result, whose
\* pairs are the first min(#sats, #residuals) ones.
C26_MismatchBestEffort ==
  [][decoder'.log # decoder.log => C26_Step(decoder, LastEntry(decoder'))]_vars

\* Two satellites cached, then a GRS with one residual: the error and one pair.
C26_Witness ==
  /\ Len(decoder.log) = 2
  /\ decoder.log[1].func = "DecodeGSA"
  /\ Len(decoder.log[1].fields.decoded.sat_list) = 2
  /\ decoder.log[2].func = "DecodeGRS"
  /\ decoder.log[2].fields.decode_error = "Residual mismatch"
  /\ decoder.log[2].decode = "record"
  /\ Len(decoder.log[2].fields.decoded.residuals) = 1
  /\ decoder.log[2].fields.decoded.sat_residuals
       = TupleOf(<<[sat |-> 1, type |-> SAT_TYPE_GPS, num |-> 1, value |-> 5]>>)

\* The signal field of the GSV sentence data: the field after the groups
\* of four that follow num_sats, empty when there is none.
SignalField(data) ==
  IF (Len(data) - 4) % 4 = 1 THEN data[Len(data)] ELSE <<>>

\* The satellite numbers of the GSV sentence data, in the order of its
\* groups.
SatsOf(data) == [k \in 1..((Len(data) - 4) \div 4) |-> DecVal(data[1 + 4 * k])]

\* The first n sentences of log are the GSV messages 1..n of n, in order,
\* of one talker and signal, with one num_sats.
InOrder(log, n) ==
  \A i \in 1..n :
    /\ log[i].data[1] \in {GPGSV, GLGSV}
    /\ Len(log[i].data) >= 8
    /\ log[i].data[1] = log[1].data[1]
    /\ DecVal(log[i].data[2]) = n
    /\ DecVal(log[i].data[3]) = i
    /\ log[i].data[4] = log[1].data[4]
    /\ SignalField(log[i].data) = SignalField(log[1].data)

\* The entry e has no decoded result and no decode_error.
Accumulated(e) ==
  e.parse = "record" /\ e.decode = "none" /\ e.fields.decode_error = "None"

\* The entry e has a decoded result with the satellites sats, and no
\* decode_error.
Combined(e, sats) ==
  /\ e.decode = "record"
  /\ e.fields.decode_error = "None"
  /\ [k \in 1..Len(e.fields.decoded.sat_views) |->
        e.fields.decoded.sat_views[k].sat] = sats

\* C27: the GSV messages 1..N of N of one system and signal, in order and
\* with equal totals, handed to a new NmeaDecoder: none of the first N-1 gets
\* a result or a decode_error, and the N-th gets the one combined result,
\* with the satellites of all N messages in the order of arrival.
C27_InOrderCombined ==
  \A n \in 1..Len(decoder.log) :
    (decoder.decoder_dict = DECODER_DICT /\ InOrder(decoder.log, n)) =>
      /\ \A i \in 1..(n - 1) : Accumulated(decoder.log[i])
      /\ Combined(decoder.log[n],
                  Concat([i \in 1..n |-> SatsOf(decoder.log[i].data)]))

\* The satellite numbers of a decoded GSV result or partial result.
ViewSats(dgsv) == [k \in 1..Len(dgsv.sat_views) |-> dgsv.sat_views[k].sat]

\* The first three entries of log are GSV items parsed for one system and
\* signal, numbered 1, 2, 3, with one num_sats; the first and the third
\* say 3 messages, the second says more.
MiddleDiffers(log) ==
  /\ Len(log) >= 3
  /\ \A i \in 1..3 :
       /\ log[i].parse = "record"
       /\ log[i].func = "DecodeGSV"
       /\ log[i].fields.parser = log[1].fields.parser
       /\ log[i].fields.parsed.signal = log[1].fields.parsed.signal
       /\ log[i].fields.parsed.num_sats = log[1].fields.parsed.num_sats
       /\ AllDigits(log[i].fields.parsed.msg_num)
       /\ DecVal(log[i].fields.parsed.msg_num) = i
       /\ AllDigits(log[i].fields.parsed.num_msgs)
  /\ DecVal(log[1].fields.parsed.num_msgs) = 3
  /\ DecVal(log[3].fields.parsed.num_msgs) = 3
  /\ DecVal(log[2].fields.parsed.num_msgs) > 3

\* The entry e has the decode error of a sequence violation, with a partial
\* result of the satellites sats.
SequenceError(e, sats) ==
  /\ e.fields.decode_error = "Unexpected sequence"
  /\ e.fields.error_data # None
  /\ ViewSats(e.fields.error_data) = sats

SameKey(log, i, n) ==
  /\ log[i].func = "DecodeGSV" /\ log[n].func = "DecodeGSV"
  /\ log[i].fields.parser = log[n].fields.parser
  /\ log[i].fields.parsed.signal = log[n].fields.parsed.signal

\* last_time of the decoder when entry i of log came: the time of the last
\* GRS decoded before it, None when there is none.  GRS is the sentence
\* with a time among those that come with GSV sentences here.
TimeBefore(log, i) ==
  IF \E j \in 1..(i - 1) : log[j].func = "DecodeGRS" /\ log[j].decode = "record"
  THEN log[CHOOSE j \in 1..(i - 1) :
             /\ log[j].func = "DecodeGRS" /\ log[j].decode = "record"
             /\ \A k \in (j + 1)..(i - 1) :
                  ~(log[k].func = "DecodeGRS" /\ log[k].decode = "record")
          ].fields.decoded.time
  ELSE None

\* Entry i of log is the first message of an accumulation that entry n
\* completes: message 1 of its key, taken without error, then only messages
\* of the key taken without error, then the result without error.
Accumulation(log, i, n) ==
  /\ i < n
  /\ SameKey(log, i, n)
  /\ DecVal(log[i].fields.parsed.msg_num) = 1
  /\ \A j \in i..(n - 1) : SameKey(log, i, j) => Accumulated(log[j])
  /\ log[n].decode = "record"
  /\ log[n].fields.decode_error = "None"

\* C29: the combined result of a key carries the decoder's last time of
\* the moment the key's first message came, whatever was decoded between
\* that message and the last: sentences with a later time, or the first
\* message of another key.
C29_TimeOfFirstMessage ==
  \A i \in 1..Len(decoder.log) :
    \A n \in 1..Len(decoder.log) :
      Accumulation(decoder.log, i, n)
        => decoder.log[n].fields.decoded.time = TimeBefore(decoder.log, i)

\* The key DecodeGSV files the GSV entry e under.
KeyOf(e) ==
  <<DecVal(e.fields.parsed.system), IntOrDefault(e.fields.parsed.signal, SIGNAL_ID_L1CA)>>

\* The entry e is a GSV message that DecodeGSV took into its bookkeeping.
Sequenced(e) ==
  /\ e.func = "DecodeGSV"
  /\ e.fields.decode_error \in {"None", "Unexpected sequence"}

Completed(e) == e.decode = "record" /\ e.fields.decode_error = "None"

Violation(e) == e.fields.decode_error = "Unexpected sequence"

\* The key of entry e has a pending accumulation that holds the totals and
\* the satellites of e alone.
RestartedWith(self, e) ==
  /\ Has(self._gsv_dict, KeyOf(e))
  /\ self._gsv_dict[KeyOf(e)][1] = DecVal(e.fields.parsed.num_msgs)
  /\ self._gsv_dict[KeyOf(e)][2] = DecVal(e.fields.parsed.msg_num)
  /\ self._gsv_dict[KeyOf(e)][3] = DecVal(e.fields.parsed.num_sats)
  /\ [k \in 1..Len(self._gsv_dict[KeyOf(e)][4]) |-> self._gsv_dict[KeyOf(e)][4][k].sat]
       = [k \in 1..Len(e.fields.parsed.sat_views) |->
            DecVal(e.fields.parsed.sat_views[k].sat)]

\* C30 as stated: a key has no pending accumulation after the message that
\* completes its sequence, nor after a message detected as a sequence
\* violation.
C30_ClearedOnCompletionOrViolation ==
  (/\ decoder.log # <<>>
   /\ Sequenced(LastEntry(decoder))
   /\ Completed(LastEntry(decoder)) \/ Violation(LastEntry(decoder)))
    => ~Has(decoder._gsv_dict, KeyOf(LastEntry(decoder)))

\* C30 amended: a key has no pending accumulation after a message that
\* returns a result, be it the completion of the sequence or a violation
\* that is the last message of its own total; after a violation that is
\* not, the accumulation before it is gone and the key has a new pending
\* one that holds this message alone.  Pending accumulations are one per
\* key, each with a message number below its total.
C30_ClearedOrRestarted ==
  /\ \A key \in DOMAIN decoder._gsv_dict :
       decoder._gsv_dict[key][2] < decoder._gsv_dict[key][1]
  /\ (decoder.log # <<>> /\ Sequenced(LastEntry(decoder))) =>
       IF LastEntry(decoder).decode = "record"
       THEN ~Has(decoder._gsv_dict, KeyOf(LastEntry(decoder)))
       ELSE /\ Has(decoder._gsv_dict, KeyOf(LastEntry(decoder)))
            /\ Violation(LastEntry(decoder))
                 => RestartedWith(decoder, LastEntry(decoder))

\* Message 2 of 4 after message 1 of 3: a violation, and the key pending
\* again with the four satellites of message 2.
C30_Witness ==
  /\ Len(decoder.log) = 2
  /\ Accumulated(decoder.log[1])
  /\ Violation(decoder.log[2])
  /\ KeyOf(decoder.log[2]) = <<SYSTEM_ID_GPS, SIGNAL_ID_L1CA>>
  /\ RestartedWith(decoder, decoder.log[2])
  /\ Len(decoder._gsv_dict[KeyOf(decoder.log[2])][4]) = 4

\* The GSV entry e is message 1 of its key, and self, the decoder before
\* it, has an accumulation pending for the key.
FirstWhilePending(self, e) ==
  /\ Sequenced(e)
  /\ DecVal(e.fields.parsed.msg_num) = 1
  /\ Has(self._gsv_dict, KeyOf(e))

\* The satellite numbers the parsed record of e holds.
ParsedSats(e) ==
  [k \in 1..Len(e.fields.parsed.sat_views) |-> DecVal(e.fields.parsed.sat_views[k].sat)]

\* What entry e started holds the satellites of e alone: the pending entry
\* of after, or, for the one message of a sequence of one, the result.
StartedAlone(after, e) ==
  IF DecVal(e.fields.parsed.num_msgs) = 1
  THEN /\ e.decode = "record"
       /\ ViewSats(e.fields.decoded) = ParsedSats(e)
       /\ ~Has(after._gsv_dict, KeyOf(e))
  ELSE /\ e.decode = "none"
       /\ RestartedWith(after, e)

C31_Step(self, after, e) ==
  FirstWhilePending(self, e) =>
    /\ Violation(e)
    /\ e.fields.error_data # None
    /\ e.fields.error_data.sat_views = self._gsv_dict[KeyOf(e)][4]
    /\ StartedAlone(after, e)

\* C31: a GSV message numbered 1 that comes while its key has an
\* accumulation pending gets a decode_error whose partial result holds
\* exactly the satellite views accumulated so far, and the accumulation
\* it starts holds its own views only.
C31_FirstDiscardsPending ==
  [][decoder'.log # decoder.log
       => C31_Step(decoder, decoder', LastEntry(decoder'))]_vars

\* Message 1 of 2 after message 1 of 3: the four satellites of the first
\* as partial result, and the key pending with those of the second.
C31_Witness ==
  /\ Len(decoder.log) = 2
  /\ Accumulated(decoder.log[1])
  /\ decoder.log[1].func = "DecodeGSV" /\ decoder.log[2].func = "DecodeGSV"
  /\ DecVal(decoder.log[1].fields.parsed.num_msgs) = 3
  /\ DecVal(decoder.log[2].fields.parsed.msg_num) = 1
  /\ DecVal(decoder.log[2].fields.parsed.num_msgs) = 2
  /\ Violation(decoder.log[2])
  /\ ViewSats(decoder.log[2].fields.error_data) = <<1, 2, 3, 4>>
  /\ RestartedWith(decoder, decoder.log[2])

\* The sentences of the log, in order.
DataOf(log) == [k \in 1..Len(log) |-> log[k].data]

\* The decoder self after GotItem of the sentences datas, one after another.
RECURSIVE AloneFrom(_, _)
AloneFrom(self, datas) ==
  IF datas = <<>> THEN self
  ELSE AloneFrom(GotItem(self, SentenceItem(Head(datas))), Tail(datas))

\* A decoder of its own that is handed the sentences of log and nothing else.
Alone(log) == AloneFrom(NewDecoder("two", DECODER_DICT), DataOf(log))

GetItemsStep == GetItemsEnd \/ GetItemsYield \/ GetItemsSkip \/ GetItemsRaise

\* "for item in extracter.GetItems()": the caller is single-threaded and
\* asks for the next item until the generator ends; the source is a file
\* that is all there, so no iteration waits.  This is WF_vars(GetItemsStep)
\* written out: an iteration has one of the four outcomes and each changes
\* pc, items or skipped, so ENABLED <<GetItemsStep>>_vars is Running.
FairSpec == Spec /\ ([]<>(~Running) \/ []<><<GetItemsStep>>_vars)

Remaining == Len(line) + Len(input)

\* What an iteration of GetItems does to the bytes: it yields an item and
\* consumes at least its first byte, or skips exactly one byte, or ends
\* with nothing left, or leaves with the exception of a recognizer.  A
\* recognizer's read loop only moves bytes from the source to the buffer.
Progress ==
  \/ /\ last'.kind = "item"
     /\ last'.consumed >= 1
     /\ Remaining' = Remaining - last'.consumed
     /\ pc' = "run"
  \/ /\ last'.kind = "skip"
     /\ Remaining' = Remaining - 1
     /\ Len(skipped') = Len(skipped) + 1
     /\ pc' = "run"
  \/ /\ last'.kind = "end"
     /\ Remaining = 0 /\ Remaining' = 0
     /\ pc' = "done"
  \/ /\ last'.kind = "raise"
     /\ Remaining' = Remaining
     /\ pc' = "raised"

-----------------------------------------------------------------------------
(* What a recognizer that declines leaves behind                            *)

\* The reader after a call that returned r, against the reader rd before it:
\* the buffer starts with the bytes it held, and what was added came off the
\* front of the source.
OnlyAppended(rd, r) ==
  /\ StartsWith(r.rd.line, rd.line)
  /\ r.rd.line \o r.rd.input = rd.line \o rd.input

RECURSIVE DeclinedFrom(_, _, _)

DeclinedNext(exs, i, rd, r) ==
  r.kind = "none" => OnlyAppended(rd, r) /\ DeclinedFrom(exs, i + 1, r.rd)

\* Every recognizer from number i on that returns none, called in turn as
\* GetItems calls them, has only appended.
DeclinedFrom(exs, i, rd) ==
  i > Len(exs) \/ DeclinedNext(exs, i, rd, Extract(exs[i], rd))

DeclinedAt(exs, top) == top.ok => DeclinedFrom(exs, 1, top.rd)

\* The error path takes the byte that was first in the buffer when the
\* recognizers were called, at the offset and after the skipped bytes of then.
SkipsCandidate ==
  (nreg' = nreg /\ last'.kind = "skip" /\ line # <<>>) =>
    /\ StartsWith(last'.buf, line)
    /\ skipped' = Append(skipped, Head(line))
    /\ charpos' = charpos + 1
    /\ last'.pos = charpos /\ last'.skip = skipped

\* C34: a recognizer that returns none leaves the bytes the buffer held
\* unchanged at its front, having at most appended bytes read from the
\* source, and leaves charpos and skipped alone: the next recognizer and the
\* error path see the same candidate bytes.
C34_NoneLeavesBuffer ==
  /\ [](Running =>
         DeclinedAt(extracters, TopOf(Reader(line, input, extended, linenum))))
  /\ [][SkipsCandidate]_vars

\* The first iteration skipped a byte after a recognizer had read on.
C34_Witness ==
  /\ last.kind = "skip" /\ Len(last.tried) >= 2
  /\ charpos = 1 /\ skipped = <<Head(last.buf)>>
  /\ extended /\ Len(line) >= 2

-----------------------------------------------------------------------------
(* Binary layouts: MakeParser and _ParseItem of parse/binary.py, called on  *)
(* their own.  A pattern is the sequence of its "name:fmt" or               *)
(* "name:fmt*count" entries, the names being the positions; count 0 stands  *)
(* for an entry without "*count".  Every primitive is one byte ("B").       *)

\* The most fields of a pattern, and the greatest count of an array.
MaxFields == 4
MaxCount == 2

Entry(fmt, count) == [fmt |-> fmt, count |-> count]

\* The patterns of the sub-records: "x:B y:B" and "n:B v:B*2".
SUB_PATTERNS ==
  [Sub |-> <<Entry("B", 0), Entry("B", 0)>>,
   Arr |-> <<Entry("B", 0), Entry("B", 2)>>]

\* struct's format "B" or "<rep>B" (rep one-byte values) and "<rep>s" (one
\* value of rep bytes).
Fmt(code, rep) == [code |-> code, rep |-> rep]

RECURSIVE StructSize(_)
\* struct.Struct(...).size
StructSize(fmts) ==
  IF fmts = <<>> THEN 0 ELSE Head(fmts).rep + StructSize(Tail(fmts))

\* A value struct unpacks: an integer, or the bytes of an "s" field.
IntValue(b) == [t |-> "int", v |-> <<b>>]
BytesValue(bs) == [t |-> "bytes", v |-> bs]

RECURSIVE Unpack(_, _)
\* Struct.unpack(data), for data of the struct's size.
Unpack(fmts, data) ==
  IF fmts = <<>> THEN <<>>
  ELSE (IF Head(fmts).code = "s"
        THEN <<BytesValue(SubSeq(data, 1, Head(fmts).rep))>>
        ELSE [i \in 1..Head(fmts).rep |-> IntValue(data[i])])
       \o Unpack(Tail(fmts), From(data, Head(fmts).rep))

\* "[struc_fmt] * count"
Repeat(x, n) == [i \in 1..n |-> x]

\* What one pattern entry adds to fmt_list.
FmtOf(struct_dict, e) ==
  IF e.fmt = "B"
  THEN <<Fmt("B", IF e.count = 0 THEN 1 ELSE e.count)>>
  ELSE Repeat(Fmt("s", StructSize(struct_dict[e.fmt].fmts)), e.count)

\* What one pattern entry adds to group_list: (idx, count) for an array of
\* primitives, (idx, count, parser) for sub-records, nothing for a scalar.
GroupOf(struct_dict, e, idx) ==
  IF e.fmt = "B"
  THEN (IF e.count = 0 THEN <<>>
        ELSE <<[offset |-> idx, count |-> e.count, len |-> 2]>>)
  ELSE <<[offset |-> idx, count |-> e.count, len |-> 3,
          parser |-> struct_dict[e.fmt]]>>

RECURSIVE MakeParserFrom(_, _, _, _, _, _)
\* The for loop of MakeParser from entry i on.
MakeParserFrom(struct_dict, pat, i, idx, fmts, groups) ==
  IF i > Len(pat)
  THEN [names |-> Len(pat), fmts |-> fmts, groups |-> groups]
  ELSE MakeParserFrom(struct_dict, pat, i + 1,
                      idx + (IF pat[i].count = 0 THEN 1 ELSE pat[i].count),
                      fmts \o FmtOf(struct_dict, pat[i]),
                      groups \o GroupOf(struct_dict, pat[i], idx))

\* MakeParser: the namedtuple type (its number of fields), the struct, and
\* the groups, if any.
MakeParser(struct_dict, pat) ==
  MakeParserFrom(struct_dict, pat, 1, 0, <<>>, <<>>)

\* The struct_dict the sub-record patterns are defined in (DefineParser).
STRUCT_DICT ==
  [Sub |-> MakeParser(<<>>, SUB_PATTERNS.Sub),
   Arr |-> MakeParser(<<>>, SUB_PATTERNS.Arr)]

TupleValue(vs) == [t |-> "tuple", v |-> vs]
RecordValue(vs) == [t |-> "record", v |-> vs]
RaisedError(exc) == [t |-> "raise", exc |-> exc]

\* namedtuple._make: TypeError unless there is one value per field.
NamedMake(names, result) ==
  IF Len(result) = names THEN RecordValue(result) ELSE RaisedError("TypeError")

RECURSIVE ParseItemFrom(_, _, _, _, _)
RECURSIVE ParseItemOf(_, _)

\* "[cls._ParseItem(subparser, x) for x in val_list]"
ParseEach(subparser, val_list) ==
  [i \in 1..Len(val_list) |-> ParseItemOf(subparser, val_list[i].v)]

\* The entry of a sub-record group: the value appended to result.
ParseSub(entry, value) ==
  IF entry.count = 0
  THEN ParseItemOf(entry.parser, value[entry.offset + 1].v)
  ELSE TupleValue(ParseEach(entry.parser,
                            Slice(value, entry.offset,
                                  entry.offset + entry.count)))

\* The for loop of _ParseItem from group k on.
ParseItemFrom(parser, value, k, idx, result) ==
  IF k > Len(parser.groups)
  THEN NamedMake(parser.names, result \o From(value, idx))
  ELSE IF parser.groups[k].len = 2
  THEN ParseItemFrom(parser, value, k + 1,
         parser.groups[k].offset + parser.groups[k].count,
         (result \o Slice(value, idx, parser.groups[k].offset))
           \o <<TupleValue(Slice(value, parser.groups[k].offset,
                                 parser.groups[k].offset
                                   + parser.groups[k].count))>>)
  ELSE ParseItemFrom(parser, value, k + 1,
         idx + parser.groups[k].offset
             + (IF parser.groups[k].count = 0 THEN 1
                ELSE parser.groups[k].count),
         (result \o Slice(value, idx, parser.groups[k].offset))
           \o <<ParseSub(parser.groups[k], value)>>)

ParseItemValue(parser, value) ==
  IF parser.groups = <<>> THEN NamedMake(parser.names, value)
  ELSE ParseItemFrom(parser, value, 1, 0, <<>>)

\* _ParseItem(parser, data)
ParseItemOf(parser, data) == ParseItemValue(parser, Unpack(parser.fmts, data))

\* The entries a pattern is made of: a scalar, an array of primitives, an
\* array of sub-records.
Entries ==
  {Entry("B", 0)}
    \cup {Entry(f, c) : f \in {"B", "Sub", "Arr"}, c \in 1..MaxCount}

Patterns == UNION {[1..n -> Entries] : n \in 1..MaxFields}

\* A message of the struct's size whose bytes are all different.
DataFor(parser) == [i \in 1..StructSize(parser.fmts) |-> i]

\* No Extracter and no Decoder: the state of a function called on its own.
OnlyCall ==
  /\ stream = <<>> /\ input = <<>> /\ line = <<>>
  /\ layout = [junk |-> <<>>, frame |-> <<>>, tail |-> <<>>, fmt |-> "none",
               kind |-> "empty"]
  /\ charpos = 0 /\ linenum = 0 /\ skipped = <<>> /\ extended = FALSE
  /\ extractables = <<>> /\ extracters = <<>> /\ items = <<>>
  /\ pc = "new" /\ error = "none" /\ last = NoStep /\ nreg = 0
  /\ main = NoMain /\ decoder = NoDecoder /\ instances = NoInstances

InitBin ==
  /\ OnlyCall
  /\ \E pat \in Patterns :
       call = [func |-> "_ParseItem", pattern |-> pat,
               parser |-> MakeParser(STRUCT_DICT, pat),
               data |-> DataFor(MakeParser(STRUCT_DICT, pat)),
               returned |-> FALSE, result |-> RaisedError("none")]

\* MessageParser._ParseItem(parser, data)
ParseItem ==
  /\ call.func = "_ParseItem" /\ ~call.returned
  /\ call' = [call EXCEPT !.returned = TRUE,
                          !.result = ParseItemOf(call.parser, call.data)]
  /\ UNCHANGED <<stream, input, line, charpos, linenum, skipped, extended,
                 extractables, extracters, items, pc, error, last, nreg,
                 layout, main, decoder, instances>>

NextBin == ParseItem

SpecBin == InitBin /\ [][NextBin]_vars

\* The bytes one entry of a pattern takes.
EntrySize(e) ==
  IF e.fmt = "B" THEN (IF e.count = 0 THEN 1 ELSE e.count)
  ELSE e.count * StructSize(STRUCT_DICT[e.fmt].fmts)

RECURSIVE ByteOffset(_, _)
\* The bytes before entry i of pattern pat.
ByteOffset(pat, i) ==
  IF i = 1 THEN 0 ELSE ByteOffset(pat, i - 1) + EntrySize(pat[i - 1])

\* The record of a sub-record pattern (scalars and arrays of primitives)
\* laid out in bs.
SubRecord(sub, bs) ==
  RecordValue([j \in 1..Len(sub) |->
    IF sub[j].count = 0 THEN IntValue(bs[ByteOffset(sub, j) + 1])
    ELSE TupleValue([k \in 1..sub[j].count |->
                      IntValue(bs[ByteOffset(sub, j) + k])])])

\* The value declared by entry e for the bytes bs it takes.
Declared(e, bs) ==
  IF e.fmt = "B"
  THEN (IF e.count = 0 THEN IntValue(bs[1])
        ELSE TupleValue([k \in 1..e.count |-> IntValue(bs[k])]))
  ELSE TupleValue([k \in 1..e.count |->
         SubRecord(SUB_PATTERNS[e.fmt],
                   Slice(bs, (k - 1) * StructSize(STRUCT_DICT[e.fmt].fmts),
                         k * StructSize(STRUCT_DICT[e.fmt].fmts)))])

\* One value per declared field, in declaration order.
DeclaredValues(pat, data) ==
  [i \in 1..Len(pat) |->
    Declared(pat[i], Slice(data, ByteOffset(pat, i),
                           ByteOffset(pat, i) + EntrySize(pat[i])))]

\* C35: for every layout made of scalars, fixed-count arrays of primitives
\* and fixed-count arrays of sub-records in any order, _ParseItem returns a
\* record with one value per declared field, in declaration order, each
\* array with its count elements and each scalar with its own value.
C35_OneValuePerField ==
  (call.func = "_ParseItem" /\ call.returned) =>
    /\ call.result.t = "record"
    /\ call.result.v = DeclaredValues(call.pattern, call.data)

\* The entries of log up to n that DecodeGSV sequenced under the key of
\* entry n.
OfKey(log, n) == {j \in 1..n : SameKey(log, j, n) /\ Sequenced(log[j])}

\* How many entries of s come after j.
After(s, j) == Cardinality({k \in s : k > j})

\* The entry of s with r entries of s after it.
FromEnd(s, r) == CHOOSE j \in s : After(s, j) = r

\* The last total entries of s are the messages 1..total of total, in
\* order, and sats are their satellites in that order.
FullRunOf(log, s, total, sats) ==
  /\ Cardinality(s) >= total
  /\ \A j \in s :
       After(s, j) < total =>
         /\ DecVal(log[j].fields.parsed.num_msgs) = total
         /\ DecVal(log[j].fields.parsed.msg_num) = total - After(s, j)
  /\ sats = Concat([i \in 1..total |-> ParsedSats(log[FromEnd(s, total - i)])])

FullRun(log, n) ==
  FullRunOf(log, OfKey(log, n), DecVal(log[n].fields.parsed.num_msgs),
            ViewSats(log[n].fields.decoded))

\* C36: every combined result DecodeGSV returns holds the satellite views
\* of a full run of the messages 1..num_msgs of its key, received in order;
\* so a last message that comes without its predecessors gets no result.
C36_ResultIsFullRun ==
  \A n \in 1..Len(decoder.log) :
    (decoder.log[n].func = "DecodeGSV" /\ decoder.log[n].decode = "record")
      => FullRun(decoder.log, n)

\* DecodeGSV cannot convert a number of the parsed record p.
GarbledGSV(p) ==
  ~(/\ DecodeIntOk(p.signal) /\ AllDigits(p.num_sats) /\ AllDigits(p.system)
    /\ AllDigits(p.num_msgs) /\ AllDigits(p.msg_num))

\* The numbers of p are not those of a message of a sequence.
BadParameters(p) ==
  /\ ~GarbledGSV(p)
  /\ \/ DecVal(p.num_msgs) < 1 \/ DecVal(p.msg_num) < 1
     \/ DecVal(p.msg_num) > DecVal(p.num_msgs)

\* A satellite of p has a field that is no number.
BadSatellites(p) ==
  /\ ~GarbledGSV(p) /\ ~BadParameters(p)
  /\ \E i \in 1..Len(p.sat_views) : ~MakeGSV_VIEWOk(p.sat_views[i])

\* The decode_error DecodeGSV is to give the parsed record p, "None" when it
\* is to take the message.
RejectionOf(p) ==
  CASE GarbledGSV(p) -> "Garbled sentence"
    [] BadParameters(p) -> "Bad parameters"
    [] BadSatellites(p) -> "Bad satellite data"
    [] OTHER -> "None"

C37_Step(self, after, e) ==
  (e.func = "DecodeGSV" /\ RejectionOf(e.fields.parsed) # "None") =>
    /\ e.fields.decode_error = RejectionOf(e.fields.parsed)
    /\ e.decode = "none"
    /\ after._gsv_dict = self._gsv_dict
    /\ after._gsv_time = self._gsv_time

\* C37: a GSV sentence that is garbled, has bad parameters or has bad
\* satellite data gets that decode_error and no result, and every pending
\* accumulation and the stored time of accumulation stay as they were.
C37_RejectedLeavesPending ==
  [][decoder'.log # decoder.log
       => C37_Step(decoder, decoder', LastEntry(decoder'))]_vars

\* After the time and message 1 of 2, a sentence with bad parameters and
\* one with bad satellite data: the accumulation is still pending, with its
\* time.
C37_Witness ==
  /\ Len(decoder.log) = 4
  /\ decoder.log[1].func = "DecodeGRS"
  /\ Accumulated(decoder.log[2])
  /\ decoder.log[3].fields.decode_error = "Bad parameters"
  /\ decoder.log[4].fields.decode_error = "Bad satellite data"
  /\ Has(decoder._gsv_dict, <<SYSTEM_ID_GPS, SIGNAL_ID_L1CA>>)
  /\ decoder._gsv_time # None

\* The buffer ln has an LF that is not its last byte.
InnerLF(ln) == \E i \in 1..(Len(ln) - 1) : ln[i] = LF

\* With the flag down, the buffer of rd has no LF before its last byte.
FlagCovers(rd) == InnerLF(rd.line) => rd.extended

RECURSIVE FlagCoversFrom(_, _, _)

FlagCoversNext(exs, i, r) ==
  /\ FlagCovers(r.rd)
  /\ r.kind = "none" => FlagCoversFrom(exs, i + 1, r.rd)

\* The flag covers the buffer after each call of a recognizer, from number i
\* on, as GetItems calls them.
FlagCoversFrom(exs, i, rd) ==
  i > Len(exs) \/ FlagCoversNext(exs, i, Extract(exs[i], rd))

FlagCoversAt(exs, top) ==
  FlagCovers(top.rd) /\ (top.ok => FlagCoversFrom(exs, 1, top.rd))

\* GetLine on a buffer that holds bytes raises the flag.
AppendFlags(rd, r) == (r.ok /\ rd.line # <<>>) => r.rd.extended

\* With the flag down, the marker GetEOL finds at the end of the buffer ends
\* at the first LF of the buffer, if the buffer has one.
EndIsFirstLF(rd, eol) ==
  (~rd.extended /\ Find(rd.line, <<LF>>) >= 0) =>
    /\ eol.endlen >= 1
    /\ eol.length + eol.endlen = Find(rd.line, <<LF>>) + 1

-----------------------------------------------------------------------------
(* CheckTime of gnss_split, called on its own.  Times are hhmmss numbers;   *)
(* here whole numbers up to MaxTime.                                        *)

MaxTime == 5

Times == 0..MaxTime

\* CheckTime(tvalue, trange), trange being [start, end]
CheckTime(tvalue, trange) ==
  IF trange[2] < trange[1]
  THEN trange[2] <= tvalue /\ tvalue <= trange[1]
  ELSE trange[1] <= tvalue /\ tvalue <= trange[2]

InitTime ==
  /\ OnlyCall
  /\ \E t \in Times, start \in Times, end \in Times :
       call = [func |-> "CheckTime", tvalue |-> t, trange |-> <<start, end>>,
               returned |-> FALSE, result |-> FALSE]

\* "if CheckTime(tvalue, trange)" of CheckTimeList
CheckTimeCall ==
  /\ call.func = "CheckTime" /\ ~call.returned
  /\ call' = [call EXCEPT !.returned = TRUE,
                          !.result = CheckTime(call.tvalue, call.trange)]
  /\ UNCHANGED <<stream, input, line, charpos, linenum, skipped, extended,
                 extractables, extracters, items, pc, error, last, nreg,
                 layout, main, decoder, instances>>

NextTime == CheckTimeCall

SpecTime == InitTime /\ [][NextTime]_vars

\* The time t lies in the range from start to end, which wraps past
\* midnight when end is before start.
InRange(t, start, end) ==
  IF end < start THEN t >= start \/ t <= end
  ELSE start <= t /\ t <= end

\* C39: CheckTime is true exactly for the times of the range: for a range
\* that wraps (end before start) the times at or after start or at or
\* before end, for any other range the times from start to end.
C39_CheckTimeInRange ==
  (call.func = "CheckTime" /\ call.returned) =>
    (call.result <=> InRange(call.tvalue, call.trange[1], call.trange[2]))
====
